---- MODULE Spec2Model ----
(***************************************************************************)
(* A model of the data normalization and metrics pipeline of intelliquery: *)
(* DataCleaner (src/src/processors/data_cleaner.py), the date helpers      *)
(* (src/src/utils/date_utils.py), BIEngine (src/src/analytics/bi_engine.py)*)
(* and the load cycle of the application (src/src/main.py).                *)
(*                                                                         *)
(* Conventions.  A Python value that may be None / NaN / NaT is an option: *)
(* None is <<>> and Some(v) is <<v>>.  A Python str is a sequence of       *)
(* one-character strings, so that lower(), strip(), substring search and   *)
(* number parsing are computed on the characters.  A date is the number of *)
(* days since 1970-01-01.  A DataFrame is [columns, rows]: the sequence of *)
(* its column names and the sequence of its rows, each row a function from *)
(* column name to option.                                                  *)
(***************************************************************************)
EXTENDS Integers, Sequences, FiniteSets, TLC

VARIABLES
    data_quality_issues,  \* DataCleaner.data_quality_issues
    deals_df,             \* the table normalize_deals returned
    orders_df,            \* the table normalize_work_orders returned
    combined_df,          \* the table join_deals_and_orders returned
    quality_report,       \* the report the last call returned, if it returned one
    raised,               \* the exception the last call ended with, or "none"
    pc,                   \* position of the caller in its call sequence
    loads,                \* number of load_data runs completed or under way
    calls,                \* the DataCleaner calls made since the last clear
    cleared,              \* the last clear: [calls before it, whether it dropped issues]
    raw_deals,            \* the raw deal records of the load under way
    raw_orders,           \* the raw work-order records of the load under way
    bi_deals,             \* deals table handed to the BIEngine
    bi_orders,            \* work-order table handed to the BIEngine
    bi_combined,          \* combined table handed to the BIEngine
    bi_filters,           \* filter set handed to the BIEngine
    bi_today,             \* the day datetime.now() fell on in that call, 0 if unread
    bi_op,                \* the BIEngine operation last called, or "none"
    bi_result,            \* what that operation returned
    bi_passed,            \* the arguments of that operation as the caller passed them
    fn_name,              \* the helper function last called on its own, or "none"
    fn_args,              \* its arguments
    fn_result             \* what it returned

vars == <<data_quality_issues, deals_df, orders_df, combined_df, quality_report,
          raised, pc, loads, calls, cleared, raw_deals, raw_orders,
          bi_deals, bi_orders, bi_combined, bi_filters, bi_today, bi_op,
          bi_result, bi_passed, fn_name, fn_args, fn_result>>

cleanerVars == <<data_quality_issues, deals_df, orders_df, combined_df,
                 quality_report, raised, pc, loads, calls, cleared,
                 raw_deals, raw_orders>>

biVars == <<bi_deals, bi_orders, bi_combined, bi_filters, bi_today, bi_op,
           bi_result, bi_passed>>

fnVars == <<fn_name, fn_args, fn_result>>

-----------------------------------------------------------------------------
(* Options and sequences *)

None == <<>>

Some(v) == <<v>>

IsNull(x) == x = None

NotNull(x) == x # None

Val(x) == x[1]

Range(s) == {s[i] : i \in 1..Len(s)}

RECURSIVE SumSeq(_)
SumSeq(s) == IF s = <<>> THEN 0 ELSE Head(s) + SumSeq(Tail(s))

RECURSIVE Flatten(_)
Flatten(ss) == IF ss = <<>> THEN <<>> ELSE Head(ss) \o Flatten(Tail(ss))

\* the elements of s in order of first appearance (pandas Series.unique)
RECURSIVE Unique(_)
Unique(s) ==
    IF s = <<>> THEN <<>>
    ELSE LET init == Unique(SubSeq(s, 1, Len(s) - 1))
             last == s[Len(s)]
         IN IF last \in Range(init) THEN init ELSE Append(init, last)

SeqOfLen(S, n) == [1..n -> S]

SeqsUpTo(S, n) == UNION {SeqOfLen(S, k) : k \in 0..n}

-----------------------------------------------------------------------------
(* Python str operations, on sequences of characters *)

UpperAlpha == <<"A","B","C","D","E","F","G","H","I","J","K","L","M",
                "N","O","P","Q","R","S","T","U","V","W","X","Y","Z">>

LowerAlpha == <<"a","b","c","d","e","f","g","h","i","j","k","l","m",
                "n","o","p","q","r","s","t","u","v","w","x","y","z">>

Digits == <<"0","1","2","3","4","5","6","7","8","9">>

Whitespace == {" ", "\t", "\n"}

LowerChar(c) ==
    IF \E i \in 1..26 : UpperAlpha[i] = c
    THEN LowerAlpha[CHOOSE i \in 1..26 : UpperAlpha[i] = c]
    ELSE c

\* str.lower()
Lower(s) == [i \in 1..Len(s) |-> LowerChar(s[i])]

RECURSIVE LStrip(_)
LStrip(s) ==
    IF s # <<>> /\ Head(s) \in Whitespace THEN LStrip(Tail(s)) ELSE s

RECURSIVE RStrip(_)
RStrip(s) ==
    IF s # <<>> /\ s[Len(s)] \in Whitespace
    THEN RStrip(SubSeq(s, 1, Len(s) - 1)) ELSE s

\* str.strip()
Strip(s) == RStrip(LStrip(s))

\* sub in s
Contains(s, sub) ==
    \E i \in 0..(Len(s) - Len(sub)) : SubSeq(s, i + 1, i + Len(sub)) = sub

IsDigit(c) == \E i \in 1..10 : Digits[i] = c

DigitVal(c) == (CHOOSE i \in 1..10 : Digits[i] = c) - 1

AllDigits(s) == s # <<>> /\ \A i \in 1..Len(s) : IsDigit(s[i])

RECURSIVE DigitsVal(_)
DigitsVal(s) ==
    IF s = <<>> THEN 0
    ELSE 10 * DigitsVal(SubSeq(s, 1, Len(s) - 1)) + DigitVal(s[Len(s)])

\* the strings float() and pd.to_numeric accept, within the fragment
\* modelled: an optional sign and decimal digits
IsNumeric(s) ==
    \/ AllDigits(s)
    \/ s # <<>> /\ Head(s) = "-" /\ AllDigits(Tail(s))

NumericVal(s) == IF Head(s) = "-" THEN 0 - DigitsVal(Tail(s)) ELSE DigitsVal(s)

\* pd.to_numeric(x, errors='coerce') of one cell
ToNumeric(x) ==
    IF NotNull(x) /\ IsNumeric(Val(x)) THEN Some(NumericVal(Val(x))) ELSE None

-----------------------------------------------------------------------------
(* Dates: src/src/utils/date_utils.py *)

\* days from 1970-01-01 to the proleptic Gregorian date y-m-d
DaysFromCivil(y, m, d) ==
    LET yy  == IF m <= 2 THEN y - 1 ELSE y
        era == yy \div 400
        yoe == yy - era * 400
        mp  == IF m > 2 THEN m - 3 ELSE m + 9
        doy == (153 * mp + 2) \div 5 + d - 1
        doe == yoe * 365 + yoe \div 4 - yoe \div 100 + doy
    IN era * 146097 + doe - 719468

\* the date [year, month, day] of a day number
CivilFromDays(z) ==
    LET zz  == z + 719468
        era == zz \div 146097
        doe == zz - era * 146097
        yoe == (doe - doe \div 1460 + doe \div 36524 - doe \div 146096) \div 365
        doy == doe - (365 * yoe + yoe \div 4 - yoe \div 100)
        mp  == (5 * doy + 2) \div 153
        d   == doy - (153 * mp + 2) \div 5 + 1
        m   == IF mp < 10 THEN mp + 3 ELSE mp - 9
        y   == yoe + era * 400 + (IF m <= 2 THEN 1 ELSE 0)
    IN [year |-> y, month |-> m, day |-> d]

IsLeap(y) == (y % 4 = 0 /\ y % 100 # 0) \/ y % 400 = 0

DaysInMonth(y, m) ==
    IF m = 2 THEN (IF IsLeap(y) THEN 29 ELSE 28)
    ELSE IF m \in {4, 6, 9, 11} THEN 30 ELSE 31

\* Python values handed to the date helpers
PyNone == [type |-> "none"]

PyStr(s) == [type |-> "str", v |-> s]

PyInt(n) == [type |-> "int", v |-> n]

PyDatetime(day) == [type |-> "datetime", v |-> day]

\* a finite float, given in tenths
PyFloat(tenths) == [type |-> "float", v |-> tenths]

\* float('nan') and pd.NaT: the values pd.isna holds of
PyNaN == [type |-> "nan"]

\* float('inf') and float('-inf')
PyInf == [type |-> "inf"]

\* int(x) of a finite float given in tenths: the fraction is cut off
IntOfTenths(t) == IF t >= 0 THEN t \div 10 ELSE 0 - ((0 - t) \div 10)

\* digits, a point, digits
IsDecimal(s) ==
    \E i \in 2..(Len(s) - 1) :
        /\ s[i] = "."
        /\ AllDigits(SubSeq(s, 1, i - 1))
        /\ AllDigits(SubSeq(s, i + 1, Len(s)))

\* the tenths of a decimal: the first digit after the point
DecimalTenths(s) ==
    LET i == CHOOSE k \in 2..(Len(s) - 1) : s[k] = "."
    IN 10 * DigitsVal(SubSeq(s, 1, i - 1)) + DigitVal(s[i + 1])

\* float(s) of a str, within the fragment modelled: blanks around the text
\* are ignored; an optional sign with digits, or digits with a decimal
\* point, or nan, or inf; every other text raises ValueError (None here)
float_of_str(s) ==
    LET t == Strip(s)
    IN IF IsNumeric(t) THEN Some(PyFloat(10 * NumericVal(t)))
       ELSE IF IsDecimal(t) THEN Some(PyFloat(DecimalTenths(t)))
       ELSE IF Lower(t) = <<"n", "a", "n">> THEN Some(PyNaN)
       ELSE IF Lower(t) \in {<<"i", "n", "f">>, <<"-", "i", "n", "f">>} THEN Some(PyInf)
       ELSE None

\* the value of a table cell (None or a str) as a Python value
PyOfCell(x) == IF IsNull(x) THEN PyNone ELSE PyStr(Val(x))

\* an epoch of 1900-01-01, the day the docstring names
excel_epoch_1900 == DaysFromCivil(1900, 1, 1)

\* datetime(1899, 12, 30)
excel_epoch == DaysFromCivil(1899, 12, 30)

\* datetime.min and datetime.max: beyond them the addition raises OverflowError
DatetimeMinDay == DaysFromCivil(1, 1, 1)

DatetimeMaxDay == DaysFromCivil(9999, 12, 31)

\* pd.Timestamp.min and pd.Timestamp.max, as whole days
TimestampMinDay == DaysFromCivil(1677, 9, 22)

TimestampMaxDay == DaysFromCivil(2262, 4, 11)

\* What a call ends with: the exception it raises, or "none" and its value
Returns(v) == [raised |-> "none", value |-> v]

Raises(e) == [raised |-> e, value |-> None]

\* an except clause that leaves OverflowError out
ExcelCaught_no_overflow == {"ValueError", "TypeError"}

\* "except (ValueError, TypeError, OverflowError): return None"
ExcelCaught == {"ValueError", "TypeError", "OverflowError"}

\* F of the value of v, v being computed once
Once(F(_), v) == CHOOSE r \in {F(y) : y \in {v}} : TRUE

\* "if isinstance(excel_date, str): excel_date = float(excel_date)"
ExcelFloat(excel_date) ==
    IF excel_date.type # "str" THEN Returns(excel_date)
    ELSE IF IsNull(float_of_str(excel_date.v)) THEN Raises("ValueError")
    ELSE Returns(Val(float_of_str(excel_date.v)))

\* "excel_epoch + timedelta(days=int(excel_date))" of what float() left
ExcelAdd(f) ==
    LET x == f.value
        n == IF x.type = "int" THEN x.v ELSE IntOfTenths(x.v)
        day == excel_epoch + n
    IN IF f.raised # "none" THEN f
       ELSE IF x.type = "nan" THEN Raises("ValueError")      \* int(nan)
       ELSE IF x.type = "inf" THEN Raises("OverflowError")   \* int(inf)
       ELSE IF x.type \notin {"int", "float"} THEN Raises("TypeError")
       ELSE IF day < DatetimeMinDay \/ day > DatetimeMaxDay
            THEN Raises("OverflowError")
       ELSE Returns(Some(day))

\* the try block of excel_date_to_datetime: float() of a str, int() of the
\* float, and the addition to the epoch
ExcelTry(excel_date) == Once(ExcelAdd, ExcelFloat(excel_date))

\* excel_date_to_datetime, as a call that returns or raises
excel_date_to_datetime_call(excel_date) ==
    IF \/ excel_date.type \in {"none", "nan"}
       \/ (excel_date.type = "str" /\ excel_date.v = <<>>)
    THEN Returns(None)
    ELSE Once(LAMBDA r : IF r.raised \in ExcelCaught THEN Returns(None) ELSE r,
              ExcelTry(excel_date))

\* excel_date_to_datetime of a whole number n
excel_date_to_datetime(n) == excel_date_to_datetime_call(PyInt(n)).value

\* "YYYY-MM-DD"
IsISODate(s) ==
    /\ Len(s) = 10
    /\ s[5] = "-" /\ s[8] = "-"
    /\ AllDigits(SubSeq(s, 1, 4)) /\ AllDigits(SubSeq(s, 6, 7))
    /\ AllDigits(SubSeq(s, 9, 10))
    /\ LET y == DigitsVal(SubSeq(s, 1, 4))
           m == DigitsVal(SubSeq(s, 6, 7))
           d == DigitsVal(SubSeq(s, 9, 10))
       IN m \in 1..12 /\ d \in 1..DaysInMonth(y, m)

ISODay(s) ==
    DaysFromCivil(DigitsVal(SubSeq(s, 1, 4)), DigitsVal(SubSeq(s, 6, 7)),
                  DigitsVal(SubSeq(s, 9, 10)))

\* pd.to_datetime of a str, within the fragment modelled: an ISO date inside
\* the Timestamp range is parsed, every other string raises ValueError
\* (ParserError and OutOfBoundsDatetime are ValueErrors), None here
to_datetime(s) ==
    IF IsISODate(s) /\ ISODay(s) >= TimestampMinDay /\ ISODay(s) <= TimestampMaxDay
    THEN Some(ISODay(s))
    ELSE None

\* "except ValueError: pass" around excel_date_to_datetime(float(date_value))
FloatCaught == {"ValueError"}

\* "except (ValueError, TypeError): return None" around pd.to_datetime
ToDatetimeCaught == {"ValueError", "TypeError"}

\* the two attempts parse_date_flexible makes on a str
ParseStr(text) ==
    LET first(fl) == IF IsNull(fl) THEN Raises("ValueError")
                     ELSE excel_date_to_datetime_call(Val(fl))
        second == IF IsNull(to_datetime(text)) THEN Raises("ValueError")
                  ELSE Returns(to_datetime(text))
        after(r) == IF r.raised = "none" THEN r
                    ELSE IF r.raised \notin FloatCaught THEN r
                    ELSE IF second.raised \in ToDatetimeCaught THEN Returns(None)
                    ELSE second
    IN Once(after, Once(first, float_of_str(text)))

\* parse_date_flexible, as a call that returns or raises
parse_date_flexible_call(date_value) ==
    IF \/ date_value.type \in {"none", "nan"}
       \/ (date_value.type = "str" /\ date_value.v = <<>>)
    THEN Returns(None)
    ELSE IF date_value.type = "datetime" THEN Returns(Some(date_value.v))
    ELSE IF date_value.type \in {"int", "float", "inf"}
         THEN excel_date_to_datetime_call(date_value)
    ELSE IF date_value.type = "str" THEN ParseStr(date_value.v)
    ELSE Returns(None)

\* the value parse_date_flexible returns
parse_date_flexible(date_value) == parse_date_flexible_call(date_value).value

\* the decimal digits of a natural number
RECURSIVE StrOfNat(_)
StrOfNat(n) ==
    IF n < 10 THEN <<Digits[n + 1]>>
    ELSE Append(StrOfNat(n \div 10), Digits[(n % 10) + 1])

\* str(n) of an int
StrOfInt(n) == IF n < 0 THEN <<"-">> \o StrOfNat(0 - n) ELSE StrOfNat(n)

\* n in at least w digits, zero-padded
RECURSIVE Padded(_, _)
Padded(n, w) ==
    LET d == StrOfNat(n)
    IN IF Len(d) >= w THEN d ELSE <<"0">> \o Padded(n, w - 1)

\* format_date with the default format "%Y-%m-%d"; "" for None
format_date(date_obj) ==
    IF IsNull(date_obj) THEN <<>>
    ELSE LET c == CivilFromDays(Val(date_obj))
         IN Padded(c.year, 4) \o <<"-">> \o Padded(c.month, 2)
            \o <<"-">> \o Padded(c.day, 2)

MonthNames == <<"Jan","Feb","Mar","Apr","May","Jun",
                "Jul","Aug","Sep","Oct","Nov","Dec">>

\* get_month_year of a non-null date: strftime("%b %Y") as <<month name, year>>
get_month_year(day) ==
    LET c == CivilFromDays(day) IN <<MonthNames[c.month], c.year>>

-----------------------------------------------------------------------------
(* DataFrames *)

\* pd.DataFrame(list of dicts): an empty list gives a table with no columns
DataFrame(cols, rows) ==
    IF rows = <<>> THEN [columns |-> <<>>, rows |-> <<>>]
    ELSE [columns |-> cols, rows |-> rows]

HasColumn(df, col) == col \in Range(df.columns)

\* df.empty
IsEmpty(df) == df.rows = <<>> \/ df.columns = <<>>

\* the column col of df as a sequence
Column(df, col) == [i \in 1..Len(df.rows) |-> df.rows[i][col]]

\* Series.sum(): nulls are skipped, the sum of no values is 0
RECURSIVE SumSkipNull(_)
SumSkipNull(s) ==
    IF s = <<>> THEN 0
    ELSE (IF IsNull(Head(s)) THEN 0 ELSE Val(Head(s))) + SumSkipNull(Tail(s))

\* number of nulls of a sequence of cells: Series.isna().sum()
RECURSIVE NullCount(_)
NullCount(s) ==
    IF s = <<>> THEN 0
    ELSE (IF IsNull(Head(s)) THEN 1 ELSE 0) + NullCount(Tail(s))

\* number of cells of s equal to v
RECURSIVE CountOf(_, _)
CountOf(s, v) ==
    IF s = <<>> THEN 0
    ELSE (IF Head(s) = v THEN 1 ELSE 0) + CountOf(Tail(s), v)

\* the first non-null cell of s, or None: GroupBy.first() skips nulls
RECURSIVE FirstNotNull(_)
FirstNotNull(s) ==
    IF s = <<>> THEN None
    ELSE IF NotNull(Head(s)) THEN Head(s) ELSE FirstNotNull(Tail(s))

-----------------------------------------------------------------------------
(* DataCleaner: src/src/processors/data_cleaner.py *)

\* The raw value of a column is a JSON text; json.loads of it either raises
\* JSONDecodeError, or gives a dict (with or without a "date" key), or gives
\* another JSON value.
JsonInvalid == [json |-> "invalid"]

JsonOther == [json |-> "other"]

JsonDict(hasDate, date) == [json |-> "dict", has_date |-> hasDate, date |-> date]

\* an extractor that returns the display text of a column of any kind
RECURSIVE _extract_text(_, _)
_extract_text(column_values, column_id) ==
    IF column_values = <<>> THEN None
    ELSE LET col == Head(column_values)
         IN IF col.id = column_id
            THEN IF col.text # <<>> THEN Some(col.text) ELSE None
            ELSE _extract_text(Tail(column_values), column_id)

RECURSIVE _extract_column_value(_, _)
_extract_column_value(column_values, column_id) ==
    IF column_values = <<>> THEN None
    ELSE LET col == Head(column_values)
         IN IF col.id = column_id
            THEN IF /\ Contains(col.type, <<"d", "a", "t", "e">>)
                    /\ NotNull(col.value)
                    /\ Val(col.value).json = "dict"
                    /\ Val(col.value).has_date
                 THEN Val(col.value).date
                 ELSE IF col.text # <<>> THEN Some(col.text) ELSE None
            ELSE _extract_column_value(Tail(column_values), column_id)

\* item.get('column_values', [])
ColumnValuesOf(item) ==
    IF IsNull(item.column_values) THEN <<>> ELSE Val(item.column_values)

DealColumns ==
    <<"item_id", "deal_code", "owner_code", "client_code", "deal_status",
      "close_date", "closure_probability", "deal_value", "tentative_close_date",
      "deal_stage", "product_deal", "sector", "created_date">>

\* the column id of each deal field
DealColumnId(field) ==
    CASE field = "owner_code"           -> "color_mkzt80xk"
      [] field = "client_code"          -> "dropdown_mkztdhbj"
      [] field = "deal_status"          -> "color_mkztr5bp"
      [] field = "close_date"           -> "date_mkztnnvm"
      [] field = "closure_probability"  -> "color_mkztdr2e"
      [] field = "deal_value"           -> "numeric_mkzt62xv"
      [] field = "tentative_close_date" -> "date_mkztwm4y"
      [] field = "deal_stage"           -> "color_mkztn0hm"
      [] field = "product_deal"         -> "color_mkztv27h"
      [] field = "sector"               -> "color_mkzt63yc"
      [] field = "created_date"         -> "date_mkzt9470"

\* the dict normalize_deals builds of one raw item
RawDealRow(item) ==
    [f \in Range(DealColumns) |->
        IF f = "item_id" THEN item.id
        ELSE IF f = "deal_code" THEN item.name
        ELSE _extract_column_value(ColumnValuesOf(item), DealColumnId(f))]

OrderColumns ==
    <<"item_id", "deal_code", "customer_code", "serial_number", "nature_of_work",
      "execution_status", "data_delivery_date", "po_date", "document_type",
      "sector", "type_of_work", "amount_excl_gst", "amount_incl_gst",
      "billed_value_excl_gst", "collected_amount", "project_stage">>

\* the column id of each work-order field
OrderColumnId(field) ==
    CASE field = "customer_code"         -> "dropdown_mkzswfd3"
      [] field = "serial_number"         -> "dropdown_mkzsbpwq"
      [] field = "nature_of_work"        -> "color_mkzs26xj"
      [] field = "execution_status"      -> "color_mkzsxp43"
      [] field = "data_delivery_date"    -> "date_mkzsr10s"
      [] field = "po_date"               -> "date_mkzstah5"
      [] field = "document_type"         -> "color_mkzsma6z"
      [] field = "sector"                -> "color_mkzsygsk"
      [] field = "type_of_work"          -> "color_mkzsapc4"
      [] field = "amount_excl_gst"       -> "numeric_mkzs9ynk"
      [] field = "amount_incl_gst"       -> "numeric_mkzsn76q"
      [] field = "billed_value_excl_gst" -> "numeric_mkzsyfer"
      [] field = "collected_amount"      -> "numeric_mkzsnk93"
      [] field = "project_stage"         -> "color_mkzsdpbq"

\* the dict normalize_work_orders builds of one raw item
RawOrderRow(item) ==
    [f \in Range(OrderColumns) |->
        IF f = "item_id" THEN item.id
        ELSE IF f = "deal_code" THEN item.name
        ELSE _extract_column_value(ColumnValuesOf(item), OrderColumnId(f))]

\* lambda x: str(x).strip() if pd.notna(x) and x != '' else None
CleanText(x) == IF NotNull(x) /\ Val(x) # <<>> THEN Some(Strip(Val(x))) ELSE None

\* a map that turns every text it does not know into Unknown
prob_map_forcing_unknown(key, x) ==
    CASE key = <<"h", "i", "g", "h">>           -> <<"H", "i", "g", "h">>
      [] key = <<"m", "e", "d", "i", "u", "m">> -> <<"M", "e", "d", "i", "u", "m">>
      [] key = <<"m", "e", "d">>                -> <<"M", "e", "d", "i", "u", "m">>
      [] key = <<"l", "o", "w">>                -> <<"L", "o", "w">>
      [] OTHER                                  -> <<"U", "n", "k", "n", "o", "w", "n">>

\* prob_map.get(key, x)
prob_map(key, x) ==
    CASE key = <<"h", "i", "g", "h">>           -> <<"H", "i", "g", "h">>
      [] key = <<"m", "e", "d", "i", "u", "m">> -> <<"M", "e", "d", "i", "u", "m">>
      [] key = <<"m", "e", "d">>                -> <<"M", "e", "d", "i", "u", "m">>
      [] key = <<"l", "o", "w">>                -> <<"L", "o", "w">>
      [] key = <<>>                             -> <<"U", "n", "k", "n", "o", "w", "n">>
      [] OTHER                                  -> x

\* lambda x: prob_map.get(str(x).lower().strip(), x) if pd.notna(x) else 'Unknown'
StandardizeProbability(x) ==
    IF NotNull(x) THEN Some(prob_map(Strip(Lower(Val(x))), Val(x)))
    ELSE Some(<<"U", "n", "k", "n", "o", "w", "n">>)

DealDateColumns == {"close_date", "tentative_close_date", "created_date"}

DealTextColumns == {"owner_code", "client_code", "product_deal", "sector"}

\* the cleaning rules of _clean_deal_data on one row
CleanDealRow(r) ==
    [f \in DOMAIN r |->
        IF f \in DealDateColumns THEN parse_date_flexible(PyOfCell(r[f]))
        ELSE IF f = "deal_value" THEN ToNumeric(r[f])
        ELSE IF f \in DealTextColumns THEN CleanText(r[f])
        ELSE IF f = "closure_probability" THEN StandardizeProbability(r[f])
        ELSE r[f]]

OrderDateColumns == {"data_delivery_date", "po_date"}

numeric_cols ==
    <<"amount_excl_gst", "amount_incl_gst", "billed_value_excl_gst",
      "collected_amount">>

OrderTextColumns == {"deal_code", "customer_code", "sector", "type_of_work"}

\* the cleaning rules of _clean_work_order_data on one row
CleanOrderRow(r) ==
    [f \in DOMAIN r |->
        IF f \in OrderDateColumns THEN parse_date_flexible(PyOfCell(r[f]))
        ELSE IF f \in Range(numeric_cols) THEN ToNumeric(r[f])
        ELSE IF f \in OrderTextColumns THEN CleanText(r[f])
        ELSE r[f]]

\* the issues _check_duplicates appends for df (none or one)
_check_duplicates(df, dataset_name, key_column) ==
    IF ~HasColumn(df, key_column) THEN <<>>
    ELSE LET keys == Column(df, key_column)
             \* df.duplicated(subset=[key], keep=False): null keys are equal
             dup(r) == CountOf(keys, r[key_column]) > 1
             duplicates == SelectSeq(df.rows, dup)
             duplicate_keys ==
                 Unique([i \in 1..Len(duplicates) |-> duplicates[i][key_column]])
         IN IF duplicates = <<>> THEN <<>>
            ELSE << [dataset         |-> dataset_name,
                     issue_type      |-> "duplicates",
                     column          |-> key_column,
                     count           |-> Len(duplicates),
                     affected_values |->
                         SubSeq(duplicate_keys, 1,
                                IF Len(duplicate_keys) < 5
                                THEN Len(duplicate_keys) ELSE 5),
                     severity        |->
                         IF Len(duplicates) > 10 THEN "High" ELSE "Medium"] >>

\* round(missing_count / total_rows * 100, 2), in hundredths of a percent
MissingPercentage(missing_count, total_rows) ==
    LET x == missing_count * 10000
        q == x \div total_rows
        r == x % total_rows
    IN IF 2 * r > total_rows THEN q + 1
       ELSE IF 2 * r = total_rows /\ q % 2 = 1 THEN q + 1
       ELSE q

\* a grading that calls exactly 25% High and exactly 10% Medium
MissingSeverity_from(missing_count, total_rows) ==
    IF missing_count * 100 >= 25 * total_rows THEN "High"
    ELSE IF missing_count * 100 >= 10 * total_rows THEN "Medium"
    ELSE "Low"

\* 'High' if pct > 25 else 'Medium' if pct > 10 else 'Low'
MissingSeverity(missing_count, total_rows) ==
    IF missing_count * 100 > 25 * total_rows THEN "High"
    ELSE IF missing_count * 100 > 10 * total_rows THEN "Medium"
    ELSE "Low"

\* the issues _track_quality_issues appends for the columns cols of df
RECURSIVE TrackColumns(_, _, _)
TrackColumns(df, cols, dataset_name) ==
    IF cols = <<>> THEN <<>>
    ELSE LET col == Head(cols)
             missing_count == NullCount(Column(df, col))
             total_rows == Len(df.rows)
             rest == TrackColumns(df, Tail(cols), dataset_name)
         IN IF missing_count > 0 /\ missing_count * 100 > 5 * total_rows
            THEN << [dataset            |-> dataset_name,
                     issue_type         |-> "missing_data",
                     column             |-> col,
                     missing_count      |-> missing_count,
                     missing_percentage |->
                         MissingPercentage(missing_count, total_rows),
                     severity           |->
                         MissingSeverity(missing_count, total_rows)] >> \o rest
            ELSE rest

_track_quality_issues(df, dataset_name) ==
    TrackColumns(df, df.columns, dataset_name)

\* a normalize_deals that skips the records without a column list
normalize_deals_skipping(raw_items) ==
    LET kept == SelectSeq(raw_items, LAMBDA item : NotNull(item.column_values))
        deals == [i \in 1..Len(kept) |-> RawDealRow(kept[i])]
        df0 == DataFrame(DealColumns, deals)
        df == [columns |-> df0.columns,
               rows |-> [i \in 1..Len(df0.rows) |-> CleanDealRow(df0.rows[i])]]
    IN [df |-> df,
        issues |-> _check_duplicates(df, "Deals", "deal_code")
                   \o _track_quality_issues(df, "Deals")]

\* normalize_deals: the table returned and the issues appended
normalize_deals(raw_items) ==
    LET deals == [i \in 1..Len(raw_items) |-> RawDealRow(raw_items[i])]
        df0 == DataFrame(DealColumns, deals)
        \* _clean_deal_data: every rule is guarded by "col in df.columns"
        df == [columns |-> df0.columns,
               rows |-> [i \in 1..Len(df0.rows) |-> CleanDealRow(df0.rows[i])]]
    IN [df |-> df,
        issues |-> _check_duplicates(df, "Deals", "deal_code")
                   \o _track_quality_issues(df, "Deals")]

\* normalize_work_orders: the table returned and the issues appended
normalize_work_orders(raw_items) ==
    LET orders == [i \in 1..Len(raw_items) |-> RawOrderRow(raw_items[i])]
        df0 == DataFrame(OrderColumns, orders)
        df == [columns |-> df0.columns,
               rows |-> [i \in 1..Len(df0.rows) |-> CleanOrderRow(df0.rows[i])]]
    IN [df |-> df,
        issues |-> _check_duplicates(df, "Work Orders", "deal_code")
                   \o _track_quality_issues(df, "Work Orders")]

-----------------------------------------------------------------------------
(* join_deals_and_orders *)

\* a count that also takes the rows without a deal code for one code
multi_orders_with_null(orders) ==
    LET codes == Column(orders, "deal_code")
    IN {c \in Range(codes) : CountOf(codes, c) > 1}

\* the deal codes with more than one work-order row:
\* value_counts() leaves null codes out
multi_orders(orders) ==
    LET codes == Column(orders, "deal_code")
    IN {c \in Range(codes) : NotNull(c) /\ CountOf(codes, c) > 1}

\* the columns of orders_df.groupby('deal_code').agg(agg_dict).reset_index():
\* the key, the summed columns, then the other columns in table order
AggColumns(orders) ==
    LET other(c) == c # "deal_code" /\ c \notin Range(numeric_cols)
    IN <<"deal_code">> \o numeric_cols \o SelectSeq(orders.columns, other)

\* an aggregation that takes 'first' for the monetary columns too
orders_agg_all_first(orders) ==
    LET codes == Column(orders, "deal_code")
        keys == Unique(SelectSeq(codes, NotNull))
        cols == AggColumns(orders)
        aggRow(k) ==
            LET group == SelectSeq(orders.rows, LAMBDA r : r["deal_code"] = k)
            IN [c \in Range(cols) |->
                   IF c = "deal_code" THEN k
                   ELSE FirstNotNull([i \in 1..Len(group) |-> group[i][c]])]
    IN [columns |-> cols, rows |-> [i \in 1..Len(keys) |-> aggRow(keys[i])]]

\* One row per non-null deal code (groupby drops null keys): the monetary
\* columns summed, every other column by GroupBy.first().  groupby sorts the
\* groups by key; the left merge below reads them by key only, and the rows
\* are kept here in order of first appearance.
orders_agg(orders) ==
    LET codes == Column(orders, "deal_code")
        keys == Unique(SelectSeq(codes, NotNull))
        cols == AggColumns(orders)
        aggRow(k) ==
            LET group == SelectSeq(orders.rows, LAMBDA r : r["deal_code"] = k)
            IN [c \in Range(cols) |->
                   IF c = "deal_code" THEN k
                   ELSE IF c \in Range(numeric_cols)
                        THEN Some(SumSkipNull([i \in 1..Len(group) |-> group[i][c]]))
                   ELSE FirstNotNull([i \in 1..Len(group) |-> group[i][c]])]
    IN [columns |-> cols, rows |-> [i \in 1..Len(keys) |-> aggRow(keys[i])]]

\* suffixes=('_deal', '_order') on the columns both tables have
DealSide(c, right) ==
    IF c # "deal_code" /\ c \in Range(right.columns)
    THEN (CASE c = "item_id" -> "item_id_deal" [] c = "sector" -> "sector_deal")
    ELSE c

OrderSide(c, left) ==
    IF c \in Range(left.columns)
    THEN (CASE c = "item_id" -> "item_id_order" [] c = "sector" -> "sector_order")
    ELSE c

\* the right rows a left row is merged with: equal keys, and pandas matches a
\* null key with a null key
MergeMatches(d, right) ==
    SelectSeq(right.rows, LAMBDA r : r["deal_code"] = d["deal_code"])

\* left.merge(right, on='deal_code', how='left', suffixes=('_deal', '_order'))
merge(left, right) ==
    LET rightCols == SelectSeq(right.columns, LAMBDA c : c # "deal_code")
        leftNames == [i \in 1..Len(left.columns) |-> DealSide(left.columns[i], right)]
        rightNames == [i \in 1..Len(rightCols) |-> OrderSide(rightCols[i], left)]
        leftPart(d) ==
            [i \in 1..Len(leftNames) |-> <<leftNames[i], d[left.columns[i]]>>]
        rightPart(r) ==
            [i \in 1..Len(rightNames) |->
                <<rightNames[i], IF r = None THEN None ELSE Val(r)[rightCols[i]]>>]
        row(d, r) ==
            LET cells == leftPart(d) \o rightPart(r)
            IN [c \in Range(leftNames \o rightNames) |->
                   (CHOOSE cell \in Range(cells) : cell[1] = c)[2]]
        rowsOf(d) ==
            LET m == MergeMatches(d, right)
            IN IF m = <<>> THEN <<row(d, None)>>
               ELSE [j \in 1..Len(m) |-> row(d, Some(m[j]))]
    IN [columns |-> leftNames \o rightNames,
        rows |-> Flatten([i \in 1..Len(left.rows) |-> rowsOf(left.rows[i])])]

\* join_deals_and_orders: the exception raised if any, the issues appended
\* before it, and the table returned
join_deals_and_orders(deals, orders) ==
    IF ~HasColumn(orders, "deal_code")
    THEN [raised |-> "KeyError", issues |-> <<>>, df |-> None]
    ELSE LET multi == multi_orders(orders)
             issues ==
                 IF multi # {}
                 THEN << [dataset    |-> "Join",
                          issue_type |-> "one_to_many",
                          column     |-> "deal_code",
                          count      |-> Cardinality(multi),
                          message    |-> Cardinality(multi),
                          severity   |-> "Medium"] >>
                 ELSE <<>>
             right == IF multi # {} THEN orders_agg(orders) ELSE orders
         IN IF ~HasColumn(deals, "deal_code")
            THEN [raised |-> "KeyError", issues |-> issues, df |-> None]
            ELSE [raised |-> "none", issues |-> issues,
                  df |-> Some(merge(deals, right))]

\* One line of the report per issue, by its type
ReportLine(issue) ==
    CASE issue.issue_type = "missing_data" ->
             [line |-> "missing_data", dataset |-> issue.dataset,
              column |-> issue.column,
              missing_percentage |-> issue.missing_percentage,
              missing_count |-> issue.missing_count]
      [] issue.issue_type = "duplicates" ->
             [line |-> "duplicates", dataset |-> issue.dataset,
              column |-> issue.column, count |-> issue.count,
              affected |-> issue.affected_values]
      [] issue.issue_type = "one_to_many" ->
             [line |-> "one_to_many", dataset |-> issue.dataset,
              message |-> issue.message]

\* a report that lists the issues in recording order under one heading
get_quality_report_ungrouped(issues) ==
    IF issues = <<>> THEN <<[line |-> "excellent"]>>
    ELSE <<[line |-> "header"],
           [line |-> "priority", severity |-> issues[1].severity]>>
         \o [k \in 1..Len(issues) |-> ReportLine(issues[k])]

\* get_quality_report: the sentinel, or the header followed by one block per
\* severity that has issues, in the order High, Medium, Low
get_quality_report(issues) ==
    IF issues = <<>> THEN <<[line |-> "excellent"]>>
    ELSE LET of(sev) == SelectSeq(issues, LAMBDA i : i.severity = sev)
             block(sev) ==
                 IF of(sev) = <<>> THEN <<>>
                 ELSE <<[line |-> "priority", severity |-> sev]>>
                      \o [k \in 1..Len(of(sev)) |-> ReportLine(of(sev)[k])]
         IN <<[line |-> "header"]>>
            \o block("High") \o block("Medium") \o block("Low")

\* a clear that empties a local list and leaves the DataCleaner's as it is
clear_quality_issues_local(issues) == issues

\* clear_quality_issues: the issue list afterwards
clear_quality_issues(issues) == <<>>

-----------------------------------------------------------------------------
(* BIEngine: src/src/analytics/bi_engine.py *)

\* The filter set: each of sector, status, probability, owner,
\* date_range_start, date_range_end is None (absent or empty) or a str
NoFilters ==
    [sector |-> None, status |-> None, probability |-> None, owner |-> None,
     date_range_start |-> None, date_range_end |-> None]

\* re.search(pat, s) for the patterns modelled: literal characters, "." for
\* any one character, and balanced groups "(" ... ")" without a quantifier,
\* which match what their contents match
RegexAtoms(pat) == SelectSeq(pat, LAMBDA c : c \notin {"(", ")"})

RegexSearch(s, pat) ==
    LET atoms == RegexAtoms(pat)
    IN \E i \in 0..(Len(s) - Len(atoms)) :
           \A k \in 1..Len(atoms) : atoms[k] = "." \/ s[i + k] = atoms[k]

\* contains(text, na=True): a cell without a value counts as a match
StrContains_na_true(cell, text) ==
    IsNull(cell) \/ RegexSearch(Lower(Val(cell)), text)

\* Series.str.lower().str.contains(text, na=False) on one cell: contains
\* reads the text as a regular expression (regex=True is its default)
StrContains(cell, text) == NotNull(cell) /\ RegexSearch(Lower(Val(cell)), text)

\* a lower bound that leaves out the rows dated on the bound itself
AtOrAfter_strict(rows, date_col, day) ==
    SelectSeq(rows, LAMBDA r : NotNull(r[date_col]) /\ Val(r[date_col]) > day)

\* filtered_df[filtered_df[date_col] >= start_date]: a row without a date
\* compares False
AtOrAfter(rows, date_col, day) ==
    SelectSeq(rows, LAMBDA r : NotNull(r[date_col]) /\ Val(r[date_col]) >= day)

\* filtered_df[filtered_df[date_col] <= end_date]
AtOrBefore(rows, date_col, day) ==
    SelectSeq(rows, LAMBDA r : NotNull(r[date_col]) /\ Val(r[date_col]) <= day)

_filter_dataframe(df, filters) ==
    LET bySector(rows) ==
            IF NotNull(filters.sector) /\ HasColumn(df, "sector")
            THEN SelectSeq(rows, LAMBDA r :
                     StrContains(r["sector"], Lower(Val(filters.sector))))
            ELSE rows
        status_col ==
            IF HasColumn(df, "deal_status") THEN "deal_status" ELSE "execution_status"
        byStatus(rows) ==
            IF NotNull(filters.status) /\ HasColumn(df, status_col)
            THEN SelectSeq(rows, LAMBDA r :
                     StrContains(r[status_col], Lower(Val(filters.status))))
            ELSE rows
        byProbability(rows) ==
            IF NotNull(filters.probability) /\ HasColumn(df, "closure_probability")
            THEN SelectSeq(rows, LAMBDA r :
                     /\ NotNull(r["closure_probability"])
                     /\ Lower(Val(r["closure_probability"]))
                            = Lower(Val(filters.probability)))
            ELSE rows
        byOwner(rows) ==
            IF NotNull(filters.owner) /\ HasColumn(df, "owner_code")
            THEN SelectSeq(rows, LAMBDA r :
                     StrContains(r["owner_code"], Lower(Val(filters.owner))))
            ELSE rows
        date_col ==
            IF HasColumn(df, "close_date") THEN "close_date"
            ELSE IF HasColumn(df, "po_date") THEN "po_date" ELSE "none"
        \* a bound pd.to_datetime cannot parse raises, and "except: pass"
        \* leaves the rows as they are
        byStart(rows) ==
            IF date_col # "none" /\ NotNull(filters.date_range_start)
               /\ NotNull(to_datetime(Val(filters.date_range_start)))
            THEN AtOrAfter(rows, date_col,
                           Val(to_datetime(Val(filters.date_range_start))))
            ELSE rows
        byEnd(rows) ==
            IF date_col # "none" /\ NotNull(filters.date_range_end)
               /\ NotNull(to_datetime(Val(filters.date_range_end)))
            THEN AtOrBefore(rows, date_col,
                            Val(to_datetime(Val(filters.date_range_end))))
            ELSE rows
    IN [columns |-> df.columns,
        rows |-> byEnd(byStart(byOwner(byProbability(byStatus(bySector(df.rows))))))]

\* {"error": "No data found matching filters", "data_quality": {"total_records": 0}}
NoDataResult ==
    [error |-> "No data found matching filters",
     data_quality |-> [total_records |-> 0]]

\* Series.value_counts().to_dict(): the count of each non-null value
ValueCounts(cells) ==
    [v \in {Val(c) : c \in {x \in Range(cells) : NotNull(x)}} |->
        CountOf(cells, Some(v))]

\* null_counts and warnings of the critical fields, in their order
RECURSIVE NullCounts(_, _)
NullCounts(df, fields) ==
    IF fields = <<>> THEN <<>>
    ELSE LET n == NullCount(Column(df, Head(fields)))
         IN (IF HasColumn(df, Head(fields)) /\ n > 0
             THEN <<[field |-> Head(fields), null_count |-> n]>> ELSE <<>>)
            \o NullCounts(df, Tail(fields))

\* the warnings: the fields with more than 10% of the records missing
Warnings(df, fields) ==
    SelectSeq(NullCounts(df, fields),
              LAMBDA w : w.null_count * 100 > 10 * Len(df.rows))

\* a lookup that gives no weight to a probability outside the table
prob_weight_table_only(prob) ==
    CASE prob = <<"H", "i", "g", "h">>                -> 8
      [] prob = <<"M", "e", "d", "i", "u", "m">>      -> 5
      [] prob = <<"L", "o", "w">>                     -> 2
      [] prob = <<"U", "n", "k", "n", "o", "w", "n">> -> 1
      [] OTHER                                        -> 0

\* prob_weights.get(prob, 0.1), in tenths
prob_weight(prob) ==
    CASE prob = <<"H", "i", "g", "h">>           -> 8
      [] prob = <<"M", "e", "d", "i", "u", "m">> -> 5
      [] prob = <<"L", "o", "w">>                -> 2
      [] OTHER                                   -> 1

\* the weighted pipeline value in tenths: every row with a value adds
\* value * weight; str(None) is 'None', which has the default weight
RECURSIVE WeightedValue(_)
WeightedValue(rows) ==
    IF rows = <<>> THEN 0
    ELSE LET r == Head(rows)
             weight == IF IsNull(r["closure_probability"]) THEN 1
                       ELSE prob_weight(Val(r["closure_probability"]))
         IN (IF NotNull(r["deal_value"]) THEN Val(r["deal_value"]) * weight ELSE 0)
            + WeightedValue(Tail(rows))

\* the rows ordered by a numeric column, largest first, rows without a value
\* last; equal values in table order
SortedByValueDesc(rows, col) ==
    LET idx == SortSeq([i \in 1..Len(rows) |-> i],
                       LAMBDA i, j :
                           \/ NotNull(rows[i][col]) /\ IsNull(rows[j][col])
                           \/ /\ NotNull(rows[i][col]) /\ NotNull(rows[j][col])
                              /\ Val(rows[i][col]) > Val(rows[j][col])
                           \/ /\ (IsNull(rows[i][col]) <=> IsNull(rows[j][col]))
                              /\ (NotNull(rows[i][col]) =>
                                     Val(rows[i][col]) = Val(rows[j][col]))
                              /\ i < j)
    IN [k \in 1..Len(rows) |-> rows[idx[k]]]

\* df.nlargest(5, 'deal_value')[[the four columns]].to_dict('records')
TopDeals(rows) ==
    LET sorted == SortedByValueDesc(rows, "deal_value")
        top == SubSeq(sorted, 1, IF Len(sorted) < 5 THEN Len(sorted) ELSE 5)
    IN [k \in 1..Len(top) |->
           [c \in {"deal_code", "client_code", "deal_value", "closure_probability"}
               |-> top[k][c]]]

\* groupby('month_year') of the rows that have a date: the months present
MonthsOf(rows, date_col) ==
    {get_month_year(Val(r[date_col])) :
        r \in {x \in Range(rows) : NotNull(x[date_col])}}

\* Series.mean(): None (NaN) when no value is present, else <<sum, count>>
Mean(cells) ==
    IF NullCount(cells) = Len(cells) THEN None
    ELSE Some(<<SumSkipNull(cells), Len(cells) - NullCount(cells)>>)

\* the metrics analyze_pipeline computes of the filtered table df
PipelineMetrics(df) ==
    LET critical_fields == <<"deal_value", "closure_probability", "deal_stage",
                             "close_date">>
        dated == SelectSeq(df.rows, LAMBDA r : NotNull(r["close_date"]))
    IN [total_deals |-> Len(df.rows),
        total_pipeline_value |-> SumSkipNull(Column(df, "deal_value")),
        average_deal_size |-> Mean(Column(df, "deal_value")),
        weighted_pipeline_value |-> WeightedValue(df.rows),
        deals_by_stage |-> ValueCounts(Column(df, "deal_stage")),
        deals_by_probability |-> ValueCounts(Column(df, "closure_probability")),
        monthly_trend |->
            [m \in MonthsOf(df.rows, "close_date") |->
                Len(SelectSeq(dated, LAMBDA r :
                        get_month_year(Val(r["close_date"])) = m))],
        top_deals |-> TopDeals(df.rows),
        data_quality |->
            [total_records |-> Len(df.rows),
             null_counts |-> NullCounts(df, critical_fields),
             warnings |-> Warnings(df, critical_fields),
             values_used_in_calculations |->
                 Len(df.rows) - NullCount(Column(df, "deal_value"))]]

\* an analyze_pipeline without the test "if df.empty"
analyze_pipeline_unguarded(deals, filters) ==
    [raised |-> "none",
     value |-> PipelineMetrics(_filter_dataframe(deals, filters))]

analyze_pipeline(deals, filters) ==
    LET df == _filter_dataframe(deals, filters)
    IN IF IsEmpty(df) THEN [raised |-> "none", value |-> NoDataResult]
       ELSE [raised |-> "none", value |-> PipelineMetrics(df)]

\* a rate computed without the test of total_billed
CollectionRate_unguarded(total_collected, total_billed) ==
    <<total_collected * 100, total_billed>>

\* collection_rate as the quotient <<numerator, denominator>>:
\* <<collected * 100, billed>>, and 0 = <<0, 1>> when billed <= 0
CollectionRate(total_collected, total_billed) ==
    IF total_billed > 0 THEN <<total_collected * 100, total_billed>> ELSE <<0, 1>>

revenue_analysis(orders, filters) ==
    LET df == _filter_dataframe(orders, filters)
        critical_fields == <<"billed_value_excl_gst", "collected_amount", "po_date">>
        total_billed == SumSkipNull(Column(df, "billed_value_excl_gst"))
        total_collected == SumSkipNull(Column(df, "collected_amount"))
        dated == SelectSeq(df.rows, LAMBDA r : NotNull(r["po_date"]))
        sectors == {Val(c) : c \in {x \in Range(Column(df, "sector")) : NotNull(x)}}
        billedOf(rows) ==
            SumSkipNull([i \in 1..Len(rows) |-> rows[i]["billed_value_excl_gst"]])
    IN IF IsEmpty(df) THEN [raised |-> "none", value |-> NoDataResult]
       ELSE [raised |-> "none",
             value |->
               [total_billed |-> total_billed,
                total_collected |-> total_collected,
                total_receivable |-> total_billed - total_collected,
                collection_rate |-> CollectionRate(total_collected, total_billed),
                revenue_by_sector |->
                    [sec \in sectors |->
                        billedOf(SelectSeq(df.rows, LAMBDA r : r["sector"] = Some(sec)))],
                monthly_trend |->
                    [m \in MonthsOf(df.rows, "po_date") |->
                        billedOf(SelectSeq(dated, LAMBDA r :
                                     get_month_year(Val(r["po_date"])) = m))],
                data_quality |->
                    [total_records |-> Len(df.rows),
                     null_counts |-> NullCounts(df, critical_fields),
                     warnings |-> Warnings(df, critical_fields),
                     billed_values_used |->
                         Len(df.rows) - NullCount(Column(df, "billed_value_excl_gst")),
                     collected_values_used |->
                         Len(df.rows) - NullCount(Column(df, "collected_amount"))]]]

\* Series.quantile(0.75) times 4, by linear interpolation between the
\* sorted values (all of them present); the position is 0.75 * (n - 1)
Quantile75x4(values) ==
    LET sorted == SortSeq(values, LAMBDA a, b : a < b)
        h4 == 3 * (Len(sorted) - 1)
        lo == h4 \div 4 + 1
        r == h4 % 4
    IN IF r = 0 THEN 4 * sorted[lo]
       ELSE 4 * sorted[lo] + r * (sorted[lo + 1] - sorted[lo])

\* a threshold test that takes a deal without a value for a high one
AboveThreshold_null_on_top(cell, present) ==
    /\ present # <<>>
    /\ IsNull(cell) \/ 4 * Val(cell) > Quantile75x4(present)

\* a threshold test written with >=
AboveThreshold_or_at(cell, present) ==
    /\ NotNull(cell)
    /\ present # <<>>
    /\ 4 * Val(cell) >= Quantile75x4(present)

\* deals_df['deal_value'] > deals_df['deal_value'].quantile(0.75): with no
\* value present the quantile is NaN and no row is above it
AboveThreshold(cell, present) ==
    /\ NotNull(cell)
    /\ present # <<>>
    /\ 4 * Val(cell) > Quantile75x4(present)

\* a test that also takes a deal open for 90 days
IsStalled_from_90(days_open) == days_open >= 90

\* open_deals['days_open'] > 90: (today - x).days counts whole days, so the
\* time of day of datetime.now() plays no part for a date created at midnight
IsStalled(days_open) == days_open > 90

\* a list that names each deal once, under the first heuristic that flags it
RiskList_once_per_deal(stalled_items, risky_items, unpaid_items) ==
    LET ids(items) == {items[i].id : i \in 1..Len(items)}
        risky == SelectSeq(risky_items, LAMBDA x : x.id \notin ids(stalled_items))
        unpaid == SelectSeq(unpaid_items,
                            LAMBDA x : x.id \notin ids(stalled_items) \cup ids(risky))
    IN stalled_items \o risky \o unpaid

\* risks, after the three loops of risks.append: the stalled deals, then the
\* high value risks, then the collection risks
RiskList(stalled_items, risky_items, unpaid_items) ==
    stalled_items \o risky_items \o unpaid_items

\* risk_assessment, datetime.now() falling on the day today
risk_assessment(deals, orders, today) ==
    IF ~HasColumn(deals, "deal_status")
    THEN [raised |-> "KeyError", value |-> <<>>]
    ELSE
    LET open_deals ==
            SelectSeq(deals.rows, LAMBDA r :
                /\ NotNull(r["deal_status"])
                /\ Lower(Val(r["deal_status"])) = <<"o", "p", "e", "n">>)
        days_open(r) ==
            IF NotNull(r["created_date"]) THEN today - Val(r["created_date"]) ELSE 0
        stalled ==
            IF HasColumn(deals, "created_date")
            THEN SelectSeq(open_deals, LAMBDA r : IsStalled(days_open(r)))
            ELSE <<>>
        present ==
            LET cells == SelectSeq(Column(deals, "deal_value"), NotNull)
            IN [i \in 1..Len(cells) |-> Val(cells[i])]
        risky_deals ==
            SelectSeq(deals.rows, LAMBDA r :
                /\ AboveThreshold(r["deal_value"], present)
                /\ r["closure_probability"] = Some(<<"L", "o", "w">>))
        unpaid ==
            IF IsEmpty(orders) THEN <<>>
            ELSE SelectSeq(orders.rows, LAMBDA r :
                    /\ NotNull(r["billed_value_excl_gst"])
                    /\ Val(r["billed_value_excl_gst"]) > 0
                    /\ r["collected_amount"] = Some(0))
        risks ==
            RiskList(
              [i \in 1..Len(stalled) |->
                [type |-> "Stalled Deal", id |-> stalled[i]["deal_code"],
                 severity |-> "Medium",
                 message |-> <<days_open(stalled[i]), stalled[i]["deal_stage"]>>]],
              [i \in 1..Len(risky_deals) |->
                [type |-> "High Value Risk", id |-> risky_deals[i]["deal_code"],
                 severity |-> "High",
                 message |-> <<risky_deals[i]["deal_value"]>>]],
              [i \in 1..Len(unpaid) |->
                [type |-> "Collection Risk", id |-> unpaid[i]["deal_code"],
                 severity |-> "High",
                 message |-> <<unpaid[i]["billed_value_excl_gst"]>>]])
        bySeverity(sev) == Len(SelectSeq(risks, LAMBDA x : x.severity = sev))
    IN [raised |-> "none",
        value |-> [total_risks |-> Len(risks),
                   risk_list |-> risks,
                   risk_summary |-> [high |-> bySeverity("High"),
                                     medium |-> bySeverity("Medium"),
                                     low |-> bySeverity("Low")]]]

\* the characters in code order, for the order of str
CharOrder ==
    <<" ", "-", "/">> \o Digits \o UpperAlpha \o <<"_">> \o LowerAlpha

CharOrd(c) == CHOOSE i \in 1..Len(CharOrder) : CharOrder[i] = c

\* a < b for two str
RECURSIVE StrLess(_, _)
StrLess(a, b) ==
    IF b = <<>> THEN FALSE
    ELSE IF a = <<>> THEN TRUE
    ELSE IF Head(a) = Head(b) THEN StrLess(Tail(a), Tail(b))
    ELSE CharOrd(Head(a)) < CharOrd(Head(b))

\* number of cells that are not null: the 'count' aggregation
CountNotNull(cells) == Len(cells) - NullCount(cells)

\* sector_performance: {} for an empty table, else one record per sector in
\* the order of the sectors (groupby sorts, and drops rows without a sector);
\* avg_deal_size is <<pipeline_value, deal_count>>, the quotient numpy takes
\* (inf or NaN when the count is 0)
sector_performance(combined) ==
    IF IsEmpty(combined) THEN [raised |-> "none", value |-> <<>>]
    ELSE
    LET sector_col ==
            IF HasColumn(combined, "sector_deal") THEN "sector_deal" ELSE "sector"
        cells == SelectSeq(Column(combined, sector_col), NotNull)
        sectors == SortSeq(Unique([i \in 1..Len(cells) |-> Val(cells[i])]), StrLess)
        metrics(sec) ==
            LET rows == SelectSeq(combined.rows, LAMBDA r : r[sector_col] = Some(sec))
                col(c) == [i \in 1..Len(rows) |-> rows[i][c]]
            IN [sector |-> sec,
                pipeline_value |-> SumSkipNull(col("deal_value")),
                deal_count |-> CountNotNull(col("deal_code")),
                billed_revenue |-> SumSkipNull(col("billed_value_excl_gst")),
                collected_revenue |-> SumSkipNull(col("collected_amount")),
                avg_deal_size |-> <<SumSkipNull(col("deal_value")),
                                    CountNotNull(col("deal_code"))>>]
    IN [raised |-> "none",
        value |-> [i \in 1..Len(sectors) |-> metrics(sectors[i])]]

\* The frames the names of a call are bound to when it returns. The
\* caller's tables are bound to the parameters; frame[mask].copy(), df.copy()
\* and groupby().agg() make a new frame, bound to a name of its own; and
\* frame[col] = values writes the column into the frame the name is bound to.
Assign(frames, name, col, value(_)) ==
    LET frame == frames[name]
    IN [frames EXCEPT ![name] =
           [columns |-> IF HasColumn(frame, col) THEN frame.columns
                        ELSE Append(frame.columns, col),
            rows    |-> [i \in 1..Len(frame.rows) |->
                            [c \in DOMAIN frame.rows[i] \cup {col} |->
                                IF c = col THEN value(frame.rows[i])
                                ELSE frame.rows[i][c]]]]]

\* df[df[date_col].notna()].copy() with trend_df['month_year'] written to it
TrendFrames(frames, df, date_col) ==
    LET trend_df ==
            [df EXCEPT !.rows = SelectSeq(@, LAMBDA r : NotNull(r[date_col]))]
        bound == [n \in DOMAIN frames \cup {"trend_df"} |->
                     IF n = "trend_df" THEN trend_df ELSE frames[n]]
    IN IF IsEmpty(df) \/ ~HasColumn(df, date_col) THEN frames
       ELSE IF IsEmpty(trend_df) THEN bound
       ELSE Assign(bound, "trend_df", "month_year",
                   LAMBDA r : get_month_year(Val(r[date_col])))

analyze_pipeline_frames(deals, filters) ==
    TrendFrames([deals_df |-> deals, filters |-> filters],
                _filter_dataframe(deals, filters), "close_date")

revenue_analysis_frames(orders, filters) ==
    TrendFrames([orders_df |-> orders, filters |-> filters],
                _filter_dataframe(orders, filters), "po_date")

\* a risk_assessment whose open_deals is the deals table itself
risk_assessment_frames_in_place(deals, orders, today) ==
    Assign([deals_df |-> deals, orders_df |-> orders],
           "deals_df", "days_open", LAMBDA r : 0)

\* open_deals, a copy of the open deals, is given the column days_open
risk_assessment_frames(deals, orders, today) ==
    LET frames == [deals_df |-> deals, orders_df |-> orders]
        open_deals ==
            [deals EXCEPT !.rows = SelectSeq(@, LAMBDA r :
                /\ NotNull(r["deal_status"])
                /\ Lower(Val(r["deal_status"])) = <<"o", "p", "e", "n">>)]
        bound == [n \in DOMAIN frames \cup {"open_deals"} |->
                     IF n = "open_deals" THEN open_deals ELSE frames[n]]
    IN IF ~HasColumn(deals, "deal_status") THEN frames
       ELSE IF ~HasColumn(deals, "created_date") THEN bound
       ELSE Assign(bound, "open_deals", "days_open",
                   LAMBDA r : IF NotNull(r["created_date"])
                              THEN today - Val(r["created_date"]) ELSE 0)

\* metrics, the frame groupby().agg() made, is given the column avg_deal_size
sector_performance_frames(combined) ==
    [combined_df |-> combined,
     metrics     |-> sector_performance(combined).value]

-----------------------------------------------------------------------------
(* Raw records of the board *)

TypeDate == <<"d", "a", "t", "e">>

TypeStatus == <<"s", "t", "a", "t", "u", "s">>

TypeDropdown == <<"d", "r", "o", "p", "d", "o", "w", "n">>

TypeNumbers == <<"n", "u", "m", "b", "e", "r", "s">>

\* the kind of the board column behind a field
ColumnType(field) ==
    IF field \in DealDateColumns \cup OrderDateColumns THEN TypeDate
    ELSE IF field \in {"deal_value"} \cup Range(numeric_cols) THEN TypeNumbers
    ELSE IF field \in {"client_code", "customer_code", "serial_number"}
         THEN TypeDropdown
    ELSE TypeStatus

\* One column of a raw record showing text: a date column carries the date
\* in its raw value, another column an index, an empty column no raw value
RawColumn(columnId, field, text) ==
    [id    |-> columnId,
     type  |-> ColumnType(field),
     text  |-> text,
     value |-> IF text = <<>> THEN None
               ELSE IF ColumnType(field) = TypeDate
                    THEN Some(JsonDict(TRUE, Some(text)))
               ELSE Some(JsonDict(FALSE, None))]

DealFields == SubSeq(DealColumns, 3, Len(DealColumns))

OrderFields == SubSeq(OrderColumns, 3, Len(OrderColumns))

\* a raw deal record named name whose columns show the texts of f
DealItem(name, f) ==
    [id |-> None, name |-> name,
     column_values |->
        Some([i \in 1..Len(DealFields) |->
                 RawColumn(DealColumnId(DealFields[i]), DealFields[i],
                           f[DealFields[i]])])]

\* a raw work-order record named name whose columns show the texts of f
OrderItem(name, f) ==
    [id |-> None, name |-> name,
     column_values |->
        Some([i \in 1..Len(OrderFields) |->
                 RawColumn(OrderColumnId(OrderFields[i]), OrderFields[i],
                           f[OrderFields[i]])])]

\* the board numbers its items: the i-th record fetched has id i
WithIds(items) ==
    [i \in 1..Len(items) |-> [items[i] EXCEPT !.id = Some(<<Digits[i + 1]>>)]]

\* a deal with every column filled
FullDeal ==
    [f \in Range(DealFields) |->
        CASE f = "owner_code"           -> <<"O", "1">>
          [] f = "client_code"          -> <<"C", "1">>
          [] f = "deal_status"          -> <<"O", "p", "e", "n">>
          [] f = "close_date"           -> <<"2","0","2","5","-","0","3","-","0","1">>
          [] f = "closure_probability"  -> <<"H", "I", "G", "H", " ">>
          [] f = "deal_value"           -> <<"1", "0", "0">>
          [] f = "tentative_close_date" -> <<"4", "5", "6", "8", "0">>
          [] f = "deal_stage"           -> <<"S", "1">>
          [] f = "product_deal"         -> <<"P", "1">>
          [] f = "sector"               -> <<" ", "M", "i", "n">>
          [] f = "created_date"         -> <<"2","0","2","4","-","0","1","-","1","5">>]

\* a work order with every column filled
FullOrder ==
    [f \in Range(OrderFields) |->
        CASE f = "customer_code"         -> <<"A">>
          [] f = "serial_number"         -> <<"S", "N", "1">>
          [] f = "nature_of_work"        -> <<"N", "1">>
          [] f = "execution_status"      -> <<"D", "o", "n", "e">>
          [] f = "data_delivery_date"    -> <<"2","0","2","5","-","0","4","-","0","1">>
          [] f = "po_date"               -> <<"2","0","2","5","-","0","2","-","0","1">>
          [] f = "document_type"         -> <<"P", "O">>
          [] f = "sector"                -> <<"M", "i", "n">>
          [] f = "type_of_work"          -> <<"T", "1">>
          [] f = "amount_excl_gst"       -> <<"2", "0", "0">>
          [] f = "amount_incl_gst"       -> <<"2", "3", "6">>
          [] f = "billed_value_excl_gst" -> <<"1", "0", "0">>
          [] f = "collected_amount"      -> <<"4", "0">>
          [] f = "project_stage"         -> <<"G", "1">>]

D1 == <<"D", "1">>

D2 == <<"D", "2">>

\* The deal records a load may fetch: complete ones, one with columns left
\* empty and no name, one without a column list
RawDealItems ==
    { DealItem(Some(D1), FullDeal),
      DealItem(None, [FullDeal EXCEPT !["sector"] = <<>>,
                                      !["deal_value"] = <<"n", "/", "a">>,
                                      !["closure_probability"] = <<>>]),
      [id |-> None, name |-> Some(D2), column_values |-> None] }

\* The work-order records a load may fetch: two of deal D1 (the second named
\* with a trailing blank) that leave different columns empty, one of D2, one
\* without a name and without a column list
RawOrderItems ==
    { OrderItem(Some(D1), [FullOrder EXCEPT !["customer_code"] = <<>>,
                                            !["collected_amount"] = <<>>]),
      OrderItem(Some(<<"D", "1", " ">>),
                [FullOrder EXCEPT !["customer_code"] = <<"B">>,
                                  !["serial_number"] = <<>>,
                                  !["billed_value_excl_gst"] = <<"5", "0">>]),
      OrderItem(Some(D2), [FullOrder EXCEPT !["billed_value_excl_gst"] = <<>>]),
      [id |-> None, name |-> None, column_values |-> None] }

-----------------------------------------------------------------------------
(* Bounds *)

\* longest list of raw deal records of a load
MaxDeals == 2

\* longest list of raw work-order records of a load
MaxOrders == 2

\* number of times the application loads the board
MaxLoads == 2

\* number of DataCleaner calls between two clears
MaxCalls == 2

\* longest list of deal records behind a table handed to the BIEngine
MaxBIDeals == 3

\* number of consecutive days, after 2024-12-24, the date helpers are tried on
SerialSpan == 40

\* longest column list _extract_column_value is tried on
MaxColumns == 2

\* most deals of a table _filter_dataframe is tried on
MaxFilterRows == 2

\* most deals of a table _track_quality_issues is tried on
MaxTrackRows == 20

\* most named deals of a table _check_duplicates is tried on
MaxDupRows == 12

-----------------------------------------------------------------------------
(* The calls of a DataCleaner, as state changes *)

EmptyDF == [columns |-> <<>>, rows |-> <<>>]

CallNormalizeDeals(raw_items) ==
    LET r == normalize_deals(raw_items)
    IN /\ deals_df' = r.df
       /\ data_quality_issues' = data_quality_issues \o r.issues
       /\ calls' = Append(calls, [op |-> "normalize_deals", issues |-> r.issues])
       /\ quality_report' = None
       /\ raised' = "none"

CallNormalizeWorkOrders(raw_items) ==
    LET r == normalize_work_orders(raw_items)
    IN /\ orders_df' = r.df
       /\ data_quality_issues' = data_quality_issues \o r.issues
       /\ calls' = Append(calls, [op |-> "normalize_work_orders",
                                  issues |-> r.issues])
       /\ quality_report' = None
       /\ raised' = "none"

\* a join that starts the issue list anew with its own issues
CallJoin_new_list ==
    LET r == join_deals_and_orders(deals_df, orders_df)
    IN /\ combined_df' = IF r.raised = "none" THEN r.df ELSE combined_df
       /\ data_quality_issues' = r.issues
       /\ calls' = Append(calls, [op |-> "join_deals_and_orders",
                                  issues |-> r.issues])
       /\ quality_report' = None
       /\ raised' = r.raised

CallJoin ==
    LET r == join_deals_and_orders(deals_df, orders_df)
    IN /\ combined_df' = IF r.raised = "none" THEN r.df ELSE combined_df
       /\ data_quality_issues' = data_quality_issues \o r.issues
       /\ calls' = Append(calls, [op |-> "join_deals_and_orders",
                                  issues |-> r.issues])
       /\ quality_report' = None
       /\ raised' = r.raised

CallGetQualityReport ==
    /\ quality_report' = Some(get_quality_report(data_quality_issues))
    /\ raised' = "none"

CallClearQualityIssues ==
    /\ data_quality_issues' = clear_quality_issues(data_quality_issues)
    /\ quality_report' = None
    /\ raised' = "none"

-----------------------------------------------------------------------------
(* load_data of src/src/main.py: one load of the board *)

\* after init_system: a new DataCleaner, nothing loaded
InitCleaner ==
    /\ data_quality_issues = <<>>
    /\ deals_df = EmptyDF
    /\ orders_df = EmptyDF
    /\ combined_df = None
    /\ quality_report = None
    /\ raised = "none"
    /\ loads = 0
    /\ calls = <<>>
    /\ cleared = [calls |-> 0, issues |-> FALSE]
    /\ raw_deals = <<>>
    /\ raw_orders = <<>>

\* no helper function is called on its own
InitNoFn ==
    /\ fn_name = "none"
    /\ fn_args = <<>>
    /\ fn_result = <<>>

\* the BIEngine is not called
InitNoBI ==
    /\ bi_deals = EmptyDF
    /\ bi_orders = EmptyDF
    /\ bi_combined = EmptyDF
    /\ bi_filters = <<>>
    /\ bi_today = 0
    /\ bi_op = "none"
    /\ bi_result = <<>>
    /\ bi_passed = <<>>

\* fetch_deals() and fetch_work_orders() return the records of the board
Fetch(dealLists, orderLists) ==
    /\ pc = "fetch"
    /\ \E d \in dealLists, o \in orderLists :
          /\ raw_deals' = WithIds(d)
          /\ raw_orders' = WithIds(o)
    /\ loads' = loads + 1
    /\ pc' = "normalize_deals"
    /\ UNCHANGED <<data_quality_issues, deals_df, orders_df, combined_df,
                   quality_report, raised, calls, cleared>>
    /\ UNCHANGED <<biVars, fnVars>>

LoadNormalizeDeals ==
    /\ pc = "normalize_deals"
    /\ CallNormalizeDeals(raw_deals)
    /\ pc' = "normalize_work_orders"
    /\ UNCHANGED <<orders_df, combined_df, loads, cleared,
                   raw_deals, raw_orders>>
    /\ UNCHANGED <<biVars, fnVars>>

LoadNormalizeWorkOrders ==
    /\ pc = "normalize_work_orders"
    /\ CallNormalizeWorkOrders(raw_orders)
    /\ pc' = "join"
    /\ UNCHANGED <<deals_df, combined_df, loads, cleared,
                   raw_deals, raw_orders>>
    /\ UNCHANGED <<biVars, fnVars>>

\* an exception leaves load_data through its except clause: the load fails
LoadJoin ==
    /\ pc = "join"
    /\ CallJoin
    /\ pc' = IF raised' = "none" THEN "report" ELSE "failed"
    /\ UNCHANGED <<deals_df, orders_df, loads, cleared,
                   raw_deals, raw_orders>>
    /\ UNCHANGED <<biVars, fnVars>>

LoadGetQualityReport ==
    /\ pc = "report"
    /\ CallGetQualityReport
    /\ pc' = "loaded"
    /\ UNCHANGED <<data_quality_issues, deals_df, orders_df, combined_df,
                   loads, calls, cleared, raw_deals, raw_orders>>
    /\ UNCHANGED <<biVars, fnVars>>

RawDealLists == SeqsUpTo(RawDealItems, MaxDeals)

RawOrderLists == SeqsUpTo(RawOrderItems, MaxOrders)

Init ==
    /\ InitCleaner
    /\ InitNoBI
    /\ InitNoFn
    /\ pc = "fetch"

Next ==
    \/ Fetch(RawDealLists, RawOrderLists)
    \/ LoadNormalizeDeals
    \/ LoadNormalizeWorkOrders
    \/ LoadJoin
    \/ LoadGetQualityReport

Spec == Init /\ [][Next]_vars

-----------------------------------------------------------------------------
(* The application: load_data again after Refresh Data or cache expiry *)

\* init_system is cached: every load uses the same DataCleaner, whose issue
\* list load_data never clears.  st.cache_data.clear() drops the tables.
Refresh ==
    /\ pc \in {"loaded", "failed"}
    /\ loads < MaxLoads
    /\ pc' = "fetch"
    /\ deals_df' = EmptyDF
    /\ orders_df' = EmptyDF
    /\ combined_df' = None
    /\ quality_report' = None
    /\ raised' = "none"
    /\ UNCHANGED <<data_quality_issues, loads, calls, cleared, raw_deals,
                   raw_orders>>
    /\ UNCHANGED <<biVars, fnVars>>

\* the boards the application may find: a clean one, one with duplicate deal
\* codes and empty columns, an empty one
AppDealLists ==
    { <<DealItem(Some(D1), FullDeal)>>,
      <<DealItem(Some(D1), FullDeal),
        DealItem(Some(D1), [FullDeal EXCEPT !["sector"] = <<>>])>>,
      <<>> }

AppOrderLists ==
    { <<OrderItem(Some(D1), FullOrder)>>,
      <<OrderItem(Some(D1), FullOrder),
        OrderItem(Some(D1), [FullOrder EXCEPT !["po_date"] = <<"s", "o", "o", "n">>])>>,
      <<OrderItem(Some(D2), [FullOrder EXCEPT !["collected_amount"] = <<>>])>> }

NextApp ==
    \/ Fetch(AppDealLists, AppOrderLists)
    \/ LoadNormalizeDeals
    \/ LoadNormalizeWorkOrders
    \/ LoadJoin
    \/ LoadGetQualityReport
    \/ Refresh

SpecApp == Init /\ [][NextApp]_vars

-----------------------------------------------------------------------------
(* A DataCleaner called in any order *)

\* the datasets handed to it: a clean list of deals, one with a duplicate
\* deal code and an empty column, and work orders with two rows for one deal
TrackDealLists ==
    { <<DealItem(Some(D1), FullDeal)>>,
      <<DealItem(Some(D1), FullDeal),
        DealItem(Some(D1), [FullDeal EXCEPT !["sector"] = <<>>])>> }

TrackOrderLists ==
    { <<OrderItem(Some(D1), FullOrder),
        OrderItem(Some(D1), [FullOrder EXCEPT !["po_date"] = <<"s", "o", "o", "n">>])>> }

ApiNormalizeDeals ==
    /\ Len(calls) < MaxCalls
    /\ \E raw \in TrackDealLists :
          /\ raw_deals' = WithIds(raw)
          /\ CallNormalizeDeals(raw_deals')
    /\ UNCHANGED <<orders_df, combined_df, pc, loads, cleared,
                   raw_orders>>
    /\ UNCHANGED <<biVars, fnVars>>

ApiNormalizeWorkOrders ==
    /\ Len(calls) < MaxCalls
    /\ \E raw \in TrackOrderLists :
          /\ raw_orders' = WithIds(raw)
          /\ CallNormalizeWorkOrders(raw_orders')
    /\ UNCHANGED <<deals_df, combined_df, pc, loads, cleared,
                   raw_deals>>
    /\ UNCHANGED <<biVars, fnVars>>

ApiJoin ==
    /\ Len(calls) < MaxCalls
    /\ CallJoin
    /\ UNCHANGED <<deals_df, orders_df, pc, loads, cleared,
                   raw_deals, raw_orders>>
    /\ UNCHANGED <<biVars, fnVars>>

ApiGetQualityReport ==
    /\ CallGetQualityReport
    /\ UNCHANGED <<data_quality_issues, deals_df, orders_df, combined_df, pc,
                   loads, calls, cleared, raw_deals, raw_orders>>
    /\ UNCHANGED <<biVars, fnVars>>

IsNormalize(call) == call.op \in {"normalize_deals", "normalize_work_orders"}

ApiClearQualityIssues ==
    /\ CallClearQualityIssues
    /\ cleared' = [calls  |-> Len(SelectSeq(calls, IsNormalize)),
                   issues |-> data_quality_issues # <<>>]
    /\ calls' = <<>>
    /\ UNCHANGED <<deals_df, orders_df, combined_df, pc, loads,
                   raw_deals, raw_orders>>
    /\ UNCHANGED <<biVars, fnVars>>

InitTracker ==
    /\ InitCleaner
    /\ InitNoBI
    /\ InitNoFn
    /\ pc = "api"

NextTracker ==
    \/ ApiNormalizeDeals
    \/ ApiNormalizeWorkOrders
    \/ ApiJoin
    \/ ApiGetQualityReport
    \/ ApiClearQualityIssues

SpecTracker == InitTracker /\ [][NextTracker]_vars

-----------------------------------------------------------------------------
(* The BIEngine called on normalized tables *)

\* the deals behind the tables: values 10, 30, 30 and none; probabilities
\* Low (also written low) and High; one deal won, one OPEN, one without a name
BIDealItems ==
    { DealItem(Some(D1), [FullDeal EXCEPT !["deal_value"] = <<"1", "0">>,
                                          !["closure_probability"] = <<"L", "o", "w">>]),
      DealItem(Some(D2), [FullDeal EXCEPT !["deal_value"] = <<"3", "0">>,
                                          !["deal_status"] = <<"O", "P", "E", "N">>,
                                          !["closure_probability"] = <<"l", "o", "w">>]),
      DealItem(Some(<<"D", "3">>),
               [FullDeal EXCEPT !["deal_value"] = <<"3", "0">>,
                                !["deal_status"] = <<"W", "o", "n">>,
                                !["sector"] = <<"G", "o", "v">>]),
      DealItem(None, [FullDeal EXCEPT !["deal_value"] = <<>>,
                                      !["closure_probability"] = <<"L", "o", "w">>]) }

\* deal lists with a deal D5 without a status and a deal D6 without a
\* creation date, alone, together and beside the open deal D1
BINullDealLists ==
    LET d1 == DealItem(Some(D1), [FullDeal EXCEPT !["deal_value"] = <<"1", "0">>,
                                                  !["closure_probability"] = <<"L", "o", "w">>])
        d5 == DealItem(Some(<<"D", "5">>),
                       [FullDeal EXCEPT !["deal_status"] = <<>>,
                                        !["closure_probability"] = <<"L", "o", "w">>])
        d6 == DealItem(Some(<<"D", "6">>), [FullDeal EXCEPT !["created_date"] = <<>>])
    IN {<<d5>>, <<d6>>, <<d5, d6>>, <<d1, d5, d6>>}

\* the work orders behind the tables: none, one billed and not collected,
\* two of which one has no collected amount and the other no billed value
BIOrderLists ==
    { <<>>,
      <<OrderItem(Some(D1), [FullOrder EXCEPT !["collected_amount"] = <<"0">>])>>,
      <<OrderItem(Some(D1), [FullOrder EXCEPT !["collected_amount"] = <<>>]),
        OrderItem(Some(D2), [FullOrder EXCEPT !["billed_value_excl_gst"] = <<>>,
                                              !["collected_amount"] = <<"0">>,
                                              !["sector"] = <<"G", "o", "v">>])>> }

\* the tables a caller hands over: what normalize_deals and
\* normalize_work_orders return, and a deals table whose rows a caller's
\* selection has all removed
BIDealTables ==
    {normalize_deals(WithIds(raw)).df : raw \in SeqsUpTo(BIDealItems, MaxBIDeals)}
    \cup {normalize_deals(WithIds(raw)).df : raw \in BINullDealLists}
    \cup {[columns |-> DealColumns, rows |-> <<>>]}

BIOrderTables == {normalize_work_orders(WithIds(raw)).df : raw \in BIOrderLists}

\* the combined table of a pair of tables; a caller for whom the join raised
\* has none and hands over an empty DataFrame
BICombined(deals, orders) ==
    LET r == join_deals_and_orders(deals, orders)
    IN IF r.raised = "none" THEN Val(r.df) ELSE EmptyDF

\* the filter sets of the queries: none, a sector that occurs, one that does
\* not, a probability, a start date nothing reaches, a start that is no date
BIFilters ==
    { NoFilters,
      [NoFilters EXCEPT !.sector = Some(<<"M", "I", "N">>)],
      [NoFilters EXCEPT !.sector = Some(<<"z", "z", "z">>)],
      [NoFilters EXCEPT !.probability = Some(<<"L", "O", "W">>)],
      [NoFilters EXCEPT !.date_range_start =
                            Some(<<"2","0","2","6","-","0","1","-","0","1">>)],
      [NoFilters EXCEPT !.date_range_start = Some(<<"s", "o", "o", "n">>)] }

\* the days a query is made on: 46, 90, 91 and 138 days after the deals were
\* created
Todays ==
    {DaysFromCivil(2024, 3, 1), DaysFromCivil(2024, 4, 14),
     DaysFromCivil(2024, 4, 15), DaysFromCivil(2024, 6, 1)}

BIAnalyzePipeline ==
    /\ pc = "bi"
    /\ \E f \in BIFilters :
          /\ bi_result' = analyze_pipeline(bi_deals, f)
          /\ bi_passed' = <<bi_deals, f>>
          /\ bi_deals' = analyze_pipeline_frames(bi_deals, f).deals_df
          /\ bi_filters' = analyze_pipeline_frames(bi_deals, f).filters
    /\ bi_op' = "analyze_pipeline"
    /\ bi_today' = 0
    /\ UNCHANGED <<bi_orders, bi_combined>>
    /\ UNCHANGED <<cleanerVars, fnVars>>

BIRevenueAnalysis ==
    /\ pc = "bi"
    /\ \E f \in BIFilters :
          /\ bi_result' = revenue_analysis(bi_orders, f)
          /\ bi_passed' = <<bi_orders, f>>
          /\ bi_orders' = revenue_analysis_frames(bi_orders, f).orders_df
          /\ bi_filters' = revenue_analysis_frames(bi_orders, f).filters
    /\ bi_op' = "revenue_analysis"
    /\ bi_today' = 0
    /\ UNCHANGED <<bi_deals, bi_combined>>
    /\ UNCHANGED <<cleanerVars, fnVars>>

BIRiskAssessment ==
    /\ pc = "bi"
    /\ \E today \in Todays :
          /\ bi_today' = today
          /\ bi_result' = risk_assessment(bi_deals, bi_orders, today)
          /\ bi_deals' = risk_assessment_frames(bi_deals, bi_orders, today).deals_df
          /\ bi_orders' = risk_assessment_frames(bi_deals, bi_orders, today).orders_df
    /\ bi_passed' = <<bi_deals, bi_orders>>
    /\ bi_op' = "risk_assessment"
    /\ bi_filters' = <<>>
    /\ UNCHANGED bi_combined
    /\ UNCHANGED <<cleanerVars, fnVars>>

BISectorPerformance ==
    /\ pc = "bi"
    /\ bi_result' = sector_performance(bi_combined)
    /\ bi_passed' = <<bi_combined>>
    /\ bi_combined' = sector_performance_frames(bi_combined).combined_df
    /\ bi_op' = "sector_performance"
    /\ bi_filters' = <<>>
    /\ bi_today' = 0
    /\ UNCHANGED <<bi_deals, bi_orders>>
    /\ UNCHANGED <<cleanerVars, fnVars>>

InitBI ==
    /\ InitCleaner
    /\ InitNoFn
    /\ pc = "bi"
    /\ bi_deals \in BIDealTables
    /\ bi_orders \in BIOrderTables
    /\ bi_combined = BICombined(bi_deals, bi_orders)
    /\ bi_filters = <<>>
    /\ bi_today = 0
    /\ bi_op = "none"
    /\ bi_result = <<>>
    /\ bi_passed = <<>>

NextBI ==
    \/ BIAnalyzePipeline
    \/ BIRevenueAnalysis
    \/ BIRiskAssessment
    \/ BISectorPerformance

SpecBI == InitBI /\ [][NextBI]_vars

-----------------------------------------------------------------------------
(* The helper functions called on their own *)

\* the days the date helpers are tried on: from 2024-12-24 on
DaysTried == {DaysFromCivil(2024, 12, 24) + k : k \in 0..SerialSpan}

\* the spreadsheet serial numbers of those days
SerialsTried == {d - excel_epoch : d \in DaysTried}

\* serial numbers at and beyond what a datetime holds, and one far beyond
SerialsAtTheEnds ==
    {DatetimeMinDay - excel_epoch - 1, DatetimeMinDay - excel_epoch, -1, 0, 1, 60,
     DatetimeMaxDay - excel_epoch, DatetimeMaxDay - excel_epoch + 1,
     100000000}

\* the values parse_date_flexible is called with that are no str: null,
\* NaN, infinity, whole and fractional numbers, datetimes
DateValues ==
    {PyNone, PyNaN, PyInf}
    \cup {PyInt(n) : n \in SerialsTried \cup SerialsAtTheEnds}
    \cup {PyFloat(10 * n + 9) : n \in SerialsTried}
    \cup {PyFloat(-5), PyFloat(-15)}
    \cup {PyDatetime(d) : d \in DaysTried}

\* the strs it is called with: empty, blank, numbers, ISO dates, dates that
\* do not exist or lie outside the Timestamp range, words
DateTexts ==
    {PyStr(StrOfInt(n)) : n \in SerialsTried \cup SerialsAtTheEnds}
    \cup {PyStr(format_date(Some(d))) : d \in DaysTried}
    \cup {PyStr(t) : t \in
            { <<>>, <<" ">>, <<"s", "o", "o", "n">>, <<"n", "a", "n">>,
              <<"i", "n", "f">>, <<" ", "4", "5", "6", "5", "8", " ">>,
              <<"4", "5", "6", "5", "8", ".", "9">>,
              <<"2","0","2","3","-","0","2","-","2","9">>,
              <<"2","0","2","4","-","0","2","-","2","9">>,
              <<"2","0","2","5","-","1","3","-","0","1">>,
              <<"9","9","9","9","-","1","2","-","3","1">>,
              <<"1","6","7","7","-","0","9","-","2","1">> }}

\* no helper was called yet: the helpers keep nothing between two calls, so
\* each behaviour follows one call
FnIdle ==
    /\ pc = "fn"
    /\ fn_name = "none"

FnParseDate ==
    /\ FnIdle
    /\ \E kind \in {"value", "text"} :
          \E v \in IF kind = "value" THEN DateValues ELSE DateTexts :
              /\ fn_args' = <<v>>
              /\ fn_result' = parse_date_flexible_call(v)
    /\ fn_name' = "parse_date_flexible"
    /\ UNCHANGED <<cleanerVars, biVars>>

\* the texts the closure probability column of a deal is tried with
ProbabilityTexts ==
    { <<"H", "I", "G", "H", " ">>, <<"h", "i", "g", "h">>, <<"H", "i", "g", "h">>,
      <<" ", "M", "e", "d", "i", "u", "m">>, <<"M", "E", "D">>, <<"m", "e", "d">>,
      <<"l", "o", "w">>, <<"L", "O", "W", " ", " ">>,
      <<>>, <<" ">>,
      <<"V", "e", "r", "y", "H", "i", "g", "h">>,
      <<" ", "V", "e", "r", "y", "H", "i", "g", "h", " ">>,
      <<"l", "o", "w", "i", "s", "h">>, <<"M", "e", "d", "i">>,
      <<"u", "n", "k", "n", "o", "w", "n">>, <<"5", "0">> }

\* a deal whose closure probability column shows text; without a text, a deal
\* that has no column list
DealWithProbability(text) ==
    IF IsNull(text) THEN [id |-> None, name |-> Some(D1), column_values |-> None]
    ELSE DealItem(Some(D1), [FullDeal EXCEPT !["closure_probability"] = Val(text)])

\* normalize_deals on one deal: the closure probability of the row returned
FnNormalizeProbability ==
    /\ FnIdle
    /\ \E text \in {None} \cup {Some(t) : t \in ProbabilityTexts} :
          /\ fn_args' = <<text>>
          /\ fn_result' =
                Returns(normalize_deals(WithIds(<<DealWithProbability(text)>>))
                            .df.rows[1]["closure_probability"])
    /\ fn_name' = "normalize_deals"
    /\ UNCHANGED <<cleanerVars, biVars>>

\* the work orders revenue_analysis is tried on: billed 100 and collected
\* 40, billed 0, billed -100 (a credit note), not billed, billed 50 in
\* another sector and not collected
RevenueOrderItems ==
    { OrderItem(Some(D1), FullOrder),
      OrderItem(Some(D1), [FullOrder EXCEPT !["billed_value_excl_gst"] = <<"0">>]),
      OrderItem(Some(D2), [FullOrder EXCEPT
                              !["billed_value_excl_gst"] = <<"-", "1", "0", "0">>]),
      OrderItem(Some(D2), [FullOrder EXCEPT !["billed_value_excl_gst"] = <<>>]),
      OrderItem(Some(D2), [FullOrder EXCEPT !["billed_value_excl_gst"] = <<"5", "0">>,
                                            !["collected_amount"] = <<>>,
                                            !["sector"] = <<"G", "o", "v">>]) }

\* the filter sets revenue_analysis is tried with
RevenueFilters ==
    { NoFilters, [NoFilters EXCEPT !.sector = Some(<<"m", "i", "n">>)] }

\* revenue_analysis(orders_df, filters) on a normalized work-order table
FnRevenueAnalysis ==
    /\ FnIdle
    /\ \E raw \in SeqsUpTo(RevenueOrderItems, MaxOrders) \ {<<>>} :
          \E f \in RevenueFilters :
             LET orders == normalize_work_orders(WithIds(raw)).df
             IN /\ fn_args' = <<orders, f>>
                /\ fn_result' = revenue_analysis(orders, f)
    /\ fn_name' = "revenue_analysis"
    /\ UNCHANGED <<cleanerVars, biVars>>

\* the deals analyze_pipeline is tried on: values 100, 30 and none;
\* probabilities High, Medium, Low, Unknown (an empty column) and VeryHigh
PipelineDealItems ==
    { DealItem(Some(D1), FullDeal),
      DealItem(Some(D1), [FullDeal EXCEPT !["closure_probability"] = <<"m", "e", "d">>,
                                          !["deal_value"] = <<"3", "0">>]),
      DealItem(Some(D2), [FullDeal EXCEPT !["closure_probability"] = <<"L", "o", "w">>,
                                          !["sector"] = <<"G", "o", "v">>]),
      DealItem(Some(D2), [FullDeal EXCEPT !["closure_probability"] = <<>>]),
      DealItem(Some(D2), [FullDeal EXCEPT !["closure_probability"] =
                                              <<"V", "e", "r", "y", "H", "i", "g", "h">>]),
      DealItem(Some(D2), [FullDeal EXCEPT !["closure_probability"] =
                                              <<"V", "e", "r", "y", "H", "i", "g", "h">>,
                                          !["deal_value"] = <<>>]) }

\* analyze_pipeline(deals_df, filters) on a normalized deal table
FnAnalyzePipeline ==
    /\ FnIdle
    /\ \E raw \in SeqsUpTo(PipelineDealItems, MaxDeals) \ {<<>>} :
          \E f \in RevenueFilters :
             LET deals == normalize_deals(WithIds(raw)).df
             IN /\ fn_args' = <<deals, f>>
                /\ fn_result' = analyze_pipeline(deals, f)
    /\ fn_name' = "analyze_pipeline"
    /\ UNCHANGED <<cleanerVars, biVars>>

\* the deals _filter_dataframe is tried on: sectors Mining, Man and none;
\* statuses Open and Won (Closed); owners O1 and AxB; probabilities High
\* and Low; closing on 2025-03-01, on 2025-04-15 and on no date
FilterDealItems ==
    { DealItem(Some(D1), [FullDeal EXCEPT !["sector"] = <<"M", "i", "n", "i", "n", "g">>]),
      DealItem(Some(D2),
               [FullDeal EXCEPT
                   !["sector"] = <<"M", "a", "n">>,
                   !["deal_status"] = <<"W", "o", "n", " ", "(", "C", "l", "o", "s", "e", "d", ")">>,
                   !["owner_code"] = <<"A", "x", "B">>,
                   !["closure_probability"] = <<"L", "o", "w">>,
                   !["close_date"] = <<"2","0","2","5","-","0","4","-","1","5">>]),
      DealItem(Some(<<"D", "3">>),
               [FullDeal EXCEPT !["sector"] = <<>>,
                                !["deal_status"] = <<>>,
                                !["owner_code"] = <<>>,
                                !["closure_probability"] = <<"L", "o", "w", "e", "r">>,
                                !["close_date"] = <<>>]) }

\* the tables _filter_dataframe is tried on: deal tables, and two work-order
\* tables (status in execution_status, date in po_date)
FilterTables ==
    {normalize_deals(WithIds(raw)).df :
        raw \in SeqsUpTo(FilterDealItems, MaxFilterRows) \ {<<>>}}
    \cup {normalize_work_orders(WithIds(raw)).df :
            raw \in { <<OrderItem(Some(D1), FullOrder)>>,
                      <<OrderItem(Some(D1), FullOrder),
                        OrderItem(Some(D2), [FullOrder EXCEPT
                            !["execution_status"] = <<"O", "p", "e", "n">>,
                            !["po_date"] = <<>>])>> }}

\* the texts a date bound is tried with: none, two dates, and no date
StartTexts ==
    {None, Some(<<"2","0","2","5","-","0","3","-","0","1">>), Some(<<"s", "o", "o", "n">>)}

EndTexts ==
    {None, Some(<<"2","0","2","5","-","0","3","-","0","1">>),
     Some(<<"2","0","2","5","-","0","1","-","3","1">>), Some(<<"l", "a", "t", "e", "r">>)}

\* the filter sets _filter_dataframe is tried with: one text filter each,
\* two together, and every pair of date bounds
FilterSets ==
    { [NoFilters EXCEPT !.sector = Some(<<"M", "I", "N">>)],
      [NoFilters EXCEPT !.sector = Some(<<"m", ".", "n">>)],
      [NoFilters EXCEPT !.status = Some(<<"o", "p", "e">>)],
      [NoFilters EXCEPT !.status = Some(<<"W", "o", "n", " ", "(", "C", "l", "o", "s", "e", "d", ")">>)],
      [NoFilters EXCEPT !.owner = Some(<<"x", "b">>)],
      [NoFilters EXCEPT !.probability = Some(<<"L", "O", "W">>)],
      [NoFilters EXCEPT !.probability = Some(<<"h", "i">>)],
      [NoFilters EXCEPT !.sector = Some(<<"m", "a">>),
                        !.probability = Some(<<"l", "o", "w">>)] }
    \cup {[NoFilters EXCEPT !.date_range_start = a, !.date_range_end = b] :
             a \in StartTexts, b \in EndTexts}

\* _filter_dataframe(df, filters)
FnFilterDataframe ==
    /\ FnIdle
    /\ \E df \in FilterTables :
          \E f \in FilterSets :
             /\ fn_args' = <<df, f>>
             /\ fn_result' = Returns(_filter_dataframe(df, f))
    /\ fn_name' = "_filter_dataframe"
    /\ UNCHANGED <<cleanerVars, biVars>>

\* the normalized table of n deals, named D1 to Dn, of which the first m
\* have no sector and the last k no close date
TrackTable(n, m, k) ==
    normalize_deals(
        [i \in 1..n |->
            [DealItem(Some(<<"D">> \o StrOfNat(i)),
                      [FullDeal EXCEPT
                          !["sector"] = IF i <= m THEN <<>> ELSE @,
                          !["close_date"] = IF i > n - k THEN <<>> ELSE @])
                EXCEPT !.id = Some(StrOfNat(i))]]).df

\* _track_quality_issues(df, 'Deals') on a normalized deal table
FnTrackQualityIssues ==
    /\ FnIdle
    /\ \E n \in 1..MaxTrackRows :
          \E m \in 0..n :
             \E k \in 0..1 :
                \E df \in {TrackTable(n, m, k)} :
                   /\ fn_args' = <<df, "Deals">>
                   /\ fn_result' = Returns(_track_quality_issues(df, "Deals"))
    /\ fn_name' = "_track_quality_issues"
    /\ UNCHANGED <<cleanerVars, biVars>>

\* the sizes of the groups of deals that share a name: every deal alone,
\* pairs, or one group of all
GroupSizes == {1, 2, MaxDupRows}

\* the normalized table of n deals named in groups of g (D0, D0, D1, D1, ...
\* for g = 2), followed by z deals without a name
DupTable(n, g, z) ==
    normalize_deals(
        [i \in 1..(n + z) |->
            [DealItem(IF i <= n THEN Some(<<"D">> \o StrOfNat((i - 1) \div g)) ELSE None,
                      FullDeal)
                EXCEPT !.id = Some(StrOfNat(i))]]).df

\* _check_duplicates(df, 'Deals', 'deal_code') on a normalized deal table
FnCheckDuplicates ==
    /\ FnIdle
    /\ \E n \in 1..MaxDupRows :
          \E g \in GroupSizes :
             \E z \in 0..2 :
                \E df \in {DupTable(n, g, z)} :
                   /\ fn_args' = <<df, "Deals", "deal_code">>
                   /\ fn_result' = Returns(_check_duplicates(df, "Deals", "deal_code"))
    /\ fn_name' = "_check_duplicates"
    /\ UNCHANGED <<cleanerVars, biVars>>

\* longest issue list a report is asked for
MaxIssues == 3

\* issues the DataCleaner records: a sector missing in 6 of 20 deals (High),
\* in 3 of 20 (Medium), in 2 of 20 (Low), a deal code carried by two deals
\* (Medium), a deal code with two work orders (Medium)
IssueSamples ==
    LET order == OrderItem(Some(D1), FullOrder)
        orders == normalize_work_orders(WithIds(<<order, order>>)).df
    IN _track_quality_issues(TrackTable(MaxTrackRows, 6, 0), "Deals")
       \o _track_quality_issues(TrackTable(MaxTrackRows, 3, 0), "Deals")
       \o _track_quality_issues(TrackTable(MaxTrackRows, 2, 0), "Deals")
       \o _check_duplicates(DupTable(2, 2, 0), "Deals", "deal_code")
       \o join_deals_and_orders(DupTable(1, 1, 0), orders).issues

\* get_quality_report() of a DataCleaner whose issue list is issues
FnGetQualityReport ==
    /\ FnIdle
    /\ \E samples \in {IssueSamples} :
          \E picks \in SeqsUpTo(1..Len(samples), MaxIssues) :
             \E issues \in {[k \in 1..Len(picks) |-> samples[picks[k]]]} :
                /\ fn_args' = <<issues>>
                /\ fn_result' = Returns(get_quality_report(issues))
    /\ fn_name' = "get_quality_report"
    /\ UNCHANGED <<cleanerVars, biVars>>

\* MondayClient of src/src/connectors/monday_client.py. A board is the
\* list of its items, each written as its number; the answer of the API to
\* the query is the exception _execute_query raised, or the list of boards
\* found, each with its items_page

\* the default of fetch_board_items' limit
DefaultLimit == 500

\* largest board fetched
MaxBoardItems == 501

\* items_page(limit: $limit) { cursor items {...} }: the first limit items
\* of the board, and a cursor when items remain
items_page(board, limit) ==
    [cursor |-> IF Len(board) > limit THEN Some("cursor") ELSE None,
     items  |-> SubSeq(board, 1, IF Len(board) < limit THEN Len(board) ELSE limit)]

\* _execute_query(query, variables) for a request that fails, an id without
\* a board, or the board with that id
_execute_query(answer, board, limit) ==
    CASE answer = "failed"   -> Raises("Exception")
      [] answer = "no board" -> Returns([boards |-> <<>>])
      [] answer = "board"    ->
             Returns([boards |-> <<[items_page |-> items_page(board, limit)]>>])

\* fetch_board_items(board_id, limit): one query, the items of its page
fetch_board_items(answer, board, limit) ==
    LET data == _execute_query(answer, board, limit)
    IN IF data.raised # "none" THEN Raises(data.raised)
       ELSE IF data.value.boards = <<>> THEN Returns(<<>>)
       ELSE Returns(data.value.boards[1].items_page.items)

\* the sizes of the boards fetched
BoardSizes ==
    {0, 1, 2, DefaultLimit - 1, DefaultLimit, DefaultLimit + 1, MaxBoardItems}

\* fetch_deals() and fetch_work_orders(): fetch_board_items(board_id) with
\* the default limit
FnFetchBoardItems ==
    /\ FnIdle
    /\ \E n \in BoardSizes :
          \E answer \in {"failed", "no board", "board"} :
             LET board == [i \in 1..n |-> i]
             IN /\ fn_args' = <<answer, board, DefaultLimit>>
                /\ fn_result' = fetch_board_items(answer, board, DefaultLimit)
    /\ fn_name' = "fetch_board_items"
    /\ UNCHANGED <<cleanerVars, biVars>>

\* a column kind that holds the word date inside another word
TypeUpdated == <<"l", "a", "s", "t", "_", "u", "p", "d", "a", "t", "e", "d">>

\* the columns the extractor is tried on: ids a and b; kinds date, status
\* and last_updated; a display text or none; a raw value that is absent, no
\* JSON, no dict, a dict without a date, a dict with one
ColumnsTried ==
    LET text == <<"J", "a", "n", " ", "5">>
        date == Some(<<"2","0","2","4","-","0","3","-","0","1">>)
        col(id, type, t, v) == [id |-> id, type |-> type, text |-> t, value |-> v]
    IN { col("a", TypeDate, text, Some(JsonDict(TRUE, date))),
         col("a", TypeDate, <<>>, Some(JsonDict(TRUE, date))),
         col("a", TypeDate, text, Some(JsonDict(FALSE, None))),
         col("a", TypeDate, text, Some(JsonInvalid)),
         col("a", TypeDate, text, Some(JsonOther)),
         col("a", TypeDate, text, None),
         col("a", TypeDate, <<>>, None),
         col("a", TypeUpdated, text, Some(JsonDict(TRUE, date))),
         col("a", TypeStatus, text, Some(JsonDict(TRUE, date))),
         col("a", TypeStatus, <<>>, Some(JsonDict(FALSE, None))),
         col("b", TypeDate, <<"F", "e", "b">>, Some(JsonDict(TRUE, date))),
         col("b", TypeStatus, <<"W", "o", "n">>, None) }

\* _extract_column_value(column_values, 'a')
FnExtractColumnValue ==
    /\ FnIdle
    /\ \E column_values \in SeqsUpTo(ColumnsTried, MaxColumns) :
          /\ fn_args' = <<column_values, "a">>
          /\ fn_result' = Returns(_extract_column_value(column_values, "a"))
    /\ fn_name' = "_extract_column_value"
    /\ UNCHANGED <<cleanerVars, biVars>>

InitFn ==
    /\ InitCleaner
    /\ InitNoBI
    /\ InitNoFn
    /\ pc = "fn"

NextFn ==
    \/ FnParseDate
    \/ FnNormalizeProbability
    \/ FnExtractColumnValue
    \/ FnRevenueAnalysis
    \/ FnAnalyzePipeline
    \/ FnFilterDataframe
    \/ FnTrackQualityIssues
    \/ FnCheckDuplicates
    \/ FnGetQualityReport
    \/ FnFetchBoardItems

SpecFn == InitFn /\ [][NextFn]_vars

-----------------------------------------------------------------------------
(* Claims about one load: normalize_deals, normalize_work_orders, join *)

\* the join of the load under way has returned
Joined == pc \in {"report", "loaded"}

\* the work-order rows of the normalized table that carry deal code k
OrdersOf(k) == SelectSeq(orders_df.rows, LAMBDA r : r["deal_code"] = k)

\* C1: join_deals_and_orders returns a combined table with exactly as many
\* rows as the deal table, whatever the deal codes on either side are.
C1_JoinKeepsRowCount ==
    Joined => Len(Val(combined_df).rows) = Len(deals_df.rows)

\* C6: a full load (normalize_deals, normalize_work_orders,
\* join_deals_and_orders) completes without raising for every pair of raw
\* record lists, an empty list of either kind included.
C6_LoadNeverRaises ==
    raised = "none" /\ pc # "failed"

\* C7: normalize_deals returns exactly one row per input record, in order:
\* as many rows as records, the i-th row built of the i-th record.
C7_OneRowPerRecord ==
    pc \notin {"fetch", "normalize_deals"} =>
        /\ Len(deals_df.rows) = Len(raw_deals)
        /\ \A i \in 1..Len(raw_deals) :
              /\ deals_df.rows[i]["item_id"] = raw_deals[i].id
              /\ deals_df.rows[i]["deal_code"] = raw_deals[i].name

\* C7 witness: two raw deal records were normalized into two rows
C7_Witness ==
    /\ pc = "normalize_work_orders"
    /\ Len(raw_deals) >= 2
    /\ Len(deals_df.rows) = Len(raw_deals)

\* C8: when some deal code has more than one work-order row, each of the four
\* monetary fields of the combined row of a deal that has work orders is the
\* sum of that field over all work-order rows with that deal code (a null
\* amount adds nothing).
C8_MonetarySums ==
    (Joined /\ multi_orders(orders_df) # {}) =>
        \A i \in 1..Len(Val(combined_df).rows) :
            LET row == Val(combined_df).rows[i]
                own == OrdersOf(row["deal_code"])
            IN (NotNull(row["deal_code"]) /\ own # <<>>) =>
                  \A c \in Range(numeric_cols) :
                      row[c] = Some(SumSkipNull([j \in 1..Len(own) |-> own[j][c]]))

\* C8 witness: two work orders of D1 billed 100 and 50 give a combined row of
\* D1 billed 150
C8_Witness ==
    /\ Joined
    /\ multi_orders(orders_df) # {}
    /\ \E j, k \in 1..Len(orders_df.rows) :
          /\ j # k
          /\ orders_df.rows[j]["deal_code"] = Some(D1)
          /\ orders_df.rows[k]["deal_code"] = Some(D1)
          /\ orders_df.rows[j]["billed_value_excl_gst"] = Some(100)
          /\ orders_df.rows[k]["billed_value_excl_gst"] = Some(50)
    /\ \E i \in 1..Len(Val(combined_df).rows) :
          /\ Val(combined_df).rows[i]["deal_code"] = Some(D1)
          /\ Val(combined_df).rows[i]["billed_value_excl_gst"] = Some(150)

\* the work-order columns that are neither the key nor monetary
NonMonetaryColumns ==
    {c \in Range(OrderColumns) : c # "deal_code" /\ c \notin Range(numeric_cols)}

\* C9: in the pre-aggregated case every non-monetary work-order field of a
\* deal's combined row holds the value of the first work-order row (in table
\* order) with that deal code.
C9_FirstRowWins ==
    (Joined /\ multi_orders(orders_df) # {}) =>
        \A i \in 1..Len(Val(combined_df).rows) :
            LET row == Val(combined_df).rows[i]
                own == OrdersOf(row["deal_code"])
            IN (NotNull(row["deal_code"]) /\ own # <<>>) =>
                  \A c \in NonMonetaryColumns :
                      row[OrderSide(c, deals_df)] = own[1][c]

-----------------------------------------------------------------------------
(* Claims about the issue list across loads *)

\* the issues one load of the records rd and ro records
IssuesOfLoad(rd, ro) ==
    LET d == normalize_deals(rd)
        o == normalize_work_orders(ro)
        j == join_deals_and_orders(d.df, o.df)
    IN d.issues \o o.issues \o j.issues

\* C2: across repeated loads on the same DataCleaner the issue list is
\* cleared between loads, so the quality report of each load holds only the
\* issues found in that load's records.
C2_ReportOfThisLoadOnly ==
    pc = "loaded" =>
        Val(quality_report) = get_quality_report(IssuesOfLoad(raw_deals, raw_orders))

\* the issues recorded by the calls made since the last clear
IssuesSinceClear == Flatten([i \in 1..Len(calls) |-> calls[i].issues])

\* C3: clear_quality_issues leaves the issue list empty, and the issues
\* present afterwards are exactly those recorded by the calls made after the
\* clear, in order.
C3_OnlyIssuesSinceClear ==
    /\ data_quality_issues = IssuesSinceClear
    /\ calls = <<>> => data_quality_issues = <<>>

\* C3 witness: two datasets were loaded and left issues, clear was called,
\* then one more dataset was loaded: the list holds the issues of that third
\* load only
C3_Witness ==
    /\ cleared.calls >= 2
    /\ cleared.issues
    /\ Len(calls) = 1
    /\ IsNormalize(calls[1])
    /\ calls[1].issues # <<>>
    /\ data_quality_issues = calls[1].issues

-----------------------------------------------------------------------------
(* Claims about the BIEngine *)

\* the table the last pipeline or revenue query was made on
QueriedTable == IF bi_op = "analyze_pipeline" THEN bi_deals ELSE bi_orders

\* the last call was a pipeline or revenue query whose filters left no row
EmptyAfterFilters ==
    /\ bi_op \in {"analyze_pipeline", "revenue_analysis"}
    /\ IsEmpty(_filter_dataframe(QueriedTable, bi_filters))

\* the result holds an error marker and a data_quality block of no records
HasErrorMarker(value) ==
    /\ "error" \in DOMAIN value
    /\ "data_quality" \in DOMAIN value
    /\ value.data_quality.total_records = 0

\* C4: analyze_pipeline and revenue_analysis, when the table is empty after
\* the filters are applied, return a result holding an error marker and a
\* data_quality block with total_records = 0, and do not raise.
C4_EmptyFilteredGivesErrorMarker ==
    EmptyAfterFilters =>
        /\ bi_result.raised = "none"
        /\ HasErrorMarker(bi_result.value)

\* C4 witness: a pipeline query on a table that has rows, with a sector
\* filter no row matches, returned the error marker
C4_Witness ==
    /\ bi_op = "analyze_pipeline"
    /\ bi_deals.rows # <<>>
    /\ NotNull(bi_filters.sector)
    /\ EmptyAfterFilters
    /\ bi_result.value = NoDataResult

\* the last call was risk_assessment or sector_performance on an empty table
EmptyInput ==
    \/ bi_op = "risk_assessment" /\ IsEmpty(bi_deals)
    \/ bi_op = "sector_performance" /\ IsEmpty(bi_combined)

\* C5: risk_assessment and sector_performance, given an empty input table,
\* also return an error marker together with a zero-record quality block,
\* and never raise.
C5_EmptyInputGivesErrorMarker ==
    EmptyInput =>
        /\ bi_result.raised = "none"
        /\ bi_result.value # <<>>
        /\ HasErrorMarker(bi_result.value)

\* the deal values present in the table handed to risk_assessment
ValuesPresent ==
    LET cells == SelectSeq(Column(bi_deals, "deal_value"), NotNull)
    IN [i \in 1..Len(cells) |-> Val(cells[i])]

\* the deal rows whose value is strictly above the 75th percentile of all
\* deal values and whose closure probability is exactly "Low"
HighValueLowProbability ==
    SelectSeq(bi_deals.rows, LAMBDA r :
        /\ NotNull(r["deal_value"])
        /\ ValuesPresent # <<>>
        /\ 4 * Val(r["deal_value"]) > Quantile75x4(ValuesPresent)
        /\ r["closure_probability"] = Some(<<"L", "o", "w">>))

\* the items of type "High Value Risk" of the risk_list returned
HighValueRisks ==
    SelectSeq(bi_result.value.risk_list, LAMBDA x : x.type = "High Value Risk")

-----------------------------------------------------------------------------
(* Claims about the date helpers *)

\* parse_date_flexible was the last call, with the argument v
ParsedDate(v) ==
    /\ fn_name = "parse_date_flexible"
    /\ fn_args[1].type = v.type
    /\ fn_args[1] = v

\* the ISO text "2025-01-01"
Iso20250101 == <<"2","0","2","5","-","0","1","-","0","1">>

UnparsableTexts ==
    { <<" ">>, <<"s", "o", "o", "n">>,
      <<"2","0","2","3","-","0","2","-","2","9">>,
      <<"2","0","2","5","-","1","3","-","0","1">>,
      <<"9","9","9","9","-","1","2","-","3","1">> }

\* the argument of the last call is null, empty or unparsable
NullOrUnparsable(v) ==
    \/ v.type \in {"none", "nan"}
    \/ v.type = "str" /\ (v.v = <<>> \/ v.v \in UnparsableTexts)

\* C12: parse_date_flexible never raises: for every input value (null, empty
\* string, integer or float including out-of-range ones, numeric string,
\* non-date string, datetime) it returns a date or null, and it returns null
\* for null, empty and unparsable input.
C12_ParseNeverRaises ==
    fn_name = "parse_date_flexible" =>
        /\ fn_result.raised = "none"
        /\ \/ IsNull(fn_result.value)
           \/ Val(fn_result.value) \in DatetimeMinDay..DatetimeMaxDay
        /\ NullOrUnparsable(fn_args[1]) => IsNull(fn_result.value)

\* C12 witness: the serial one day past datetime.max was parsed: the call
\* returned null and did not raise
C12_Witness ==
    /\ ParsedDate(PyInt(DatetimeMaxDay - excel_epoch + 1))
    /\ fn_result = Returns(None)

-----------------------------------------------------------------------------
(* Claims about the Record Normalizer and the Column Extractor *)

\* the closure probability the mapping gives a text shown by the column
MappedProbability(text) ==
    LET key == Strip(Lower(text))
    IN IF key = <<"h", "i", "g", "h">> THEN <<"H", "i", "g", "h">>
       ELSE IF key \in {<<"m", "e", "d", "i", "u", "m">>, <<"m", "e", "d">>}
            THEN <<"M", "e", "d", "i", "u", "m">>
       ELSE IF key = <<"l", "o", "w">> THEN <<"L", "o", "w">>
       ELSE IF key = <<>> THEN <<"U", "n", "k", "n", "o", "w", "n">>
       ELSE text

\* C13: deal normalization maps closure probability case-insensitively and
\* ignoring surrounding whitespace: high to High, medium or med to Medium,
\* low to Low, empty or missing to Unknown; every other value is passed
\* through unchanged ("HIGH " gives "High", "" gives "Unknown", "VeryHigh"
\* stays "VeryHigh").
C13_ProbabilityMapping ==
    fn_name = "normalize_deals" =>
        /\ IsNull(fn_args[1]) =>
              fn_result.value = Some(<<"U", "n", "k", "n", "o", "w", "n">>)
        /\ NotNull(fn_args[1]) =>
              fn_result.value = Some(MappedProbability(Val(fn_args[1])))
        /\ fn_args[1] = Some(<<"H", "I", "G", "H", " ">>) =>
              fn_result.value = Some(<<"H", "i", "g", "h">>)
        /\ fn_args[1] = Some(<<>>) =>
              fn_result.value = Some(<<"U", "n", "k", "n", "o", "w", "n">>)
        /\ fn_args[1] = Some(<<"V", "e", "r", "y", "H", "i", "g", "h">>) =>
              fn_result.value = Some(<<"V", "e", "r", "y", "H", "i", "g", "h">>)

\* C13 witness: a deal whose probability column shows VeryHigh was
\* normalized, and its row says VeryHigh
C13_Witness ==
    /\ fn_name = "normalize_deals"
    /\ fn_args[1] = Some(<<"V", "e", "r", "y", "H", "i", "g", "h">>)
    /\ fn_result.value = fn_args[1]

\* the first column of the list that has the id, if any
FirstWithId(column_values, id) ==
    LET hits == SelectSeq(column_values, LAMBDA c : c.id = id)
    IN IF hits = <<>> THEN None ELSE Some(hits[1])

\* the column's kind contains "date" and its raw value carries a date
CarriesDate(col) ==
    /\ Contains(col.type, <<"d", "a", "t", "e">>)
    /\ NotNull(col.value)
    /\ Val(col.value).json = "dict"
    /\ Val(col.value).has_date

\* C14: _extract_column_value returns null when no column has the id; the
\* date embedded in the raw value when the column's kind contains "date" and
\* the raw value carries one, whatever the display text; otherwise the
\* display text, or null when the display text is empty.
C14_ExtractColumnValue ==
    fn_name = "_extract_column_value" =>
        LET found == FirstWithId(fn_args[1], fn_args[2])
        IN /\ IsNull(found) => fn_result = Returns(None)
           /\ NotNull(found) =>
                 fn_result.value =
                     IF CarriesDate(Val(found)) THEN Val(Val(found).value).date
                     ELSE IF Val(found).text = <<>> THEN None
                     ELSE Some(Val(found).text)

\* C14 witness: a date column showing "Jan 5" whose raw value embeds
\* 2024-03-01 was extracted as 2024-03-01
C14_Witness ==
    /\ fn_name = "_extract_column_value"
    /\ Len(fn_args[1]) >= 1
    /\ fn_args[1][1].id = "a"
    /\ fn_args[1][1].text = <<"J", "a", "n", " ", "5">>
    /\ CarriesDate(fn_args[1][1])
    /\ fn_result.value = Some(<<"2","0","2","4","-","0","3","-","0","1">>)

-----------------------------------------------------------------------------
(* Claims about the Business Intelligence Engine's numbers *)

\* revenue_analysis was called and returned its metrics
RevenueReturned ==
    /\ fn_name = "revenue_analysis"
    /\ fn_result.raised = "none"
    /\ "error" \notin DOMAIN fn_result.value

\* C15: revenue_analysis returns collection_rate = total_collected /
\* total_billed x 100 when total_billed is greater than 0, and 0 when
\* total_billed is 0 or negative; the division never has a zero divisor.
C15_CollectionRate ==
    RevenueReturned =>
        LET v == fn_result.value
        IN /\ v.collection_rate[2] # 0
           /\ v.total_billed > 0 =>
                 v.collection_rate = <<v.total_collected * 100, v.total_billed>>
           /\ v.total_billed <= 0 => v.collection_rate[1] = 0

\* C15 witness: work orders with money collected and a billed total of 0
\* were analysed, and the rate is 0
C15_Witness ==
    /\ RevenueReturned
    /\ fn_result.value.total_billed = 0
    /\ fn_result.value.total_collected > 0
    /\ fn_result.value.collection_rate[1] = 0

\* the sectors of the rows of the combined table handed to sector_performance
SectorsPresent ==
    LET sector_col == IF HasColumn(bi_combined, "sector_deal")
                      THEN "sector_deal" ELSE "sector"
    IN {Val(r[sector_col]) :
           r \in {x \in Range(bi_combined.rows) : NotNull(x[sector_col])}}

\* C16: sector_performance returns one entry per sector present in the
\* combined rows, and every entry has a deal_count of at least 1, so that
\* avg_deal_size = pipeline_value / deal_count never has a zero divisor,
\* also when rows have a null deal code.
C16_EverySectorCountsADeal ==
    (bi_op = "sector_performance" /\ bi_result.raised = "none") =>
        LET entries == bi_result.value
        IN /\ {entries[i].sector : i \in 1..Len(entries)} = SectorsPresent
           /\ Len(entries) = Cardinality(SectorsPresent)
           /\ \A i \in 1..Len(entries) :
                 /\ entries[i].deal_count >= 1
                 /\ entries[i].avg_deal_size[2] # 0

\* analyze_pipeline was called and returned its metrics
PipelineReturned ==
    /\ fn_name = "analyze_pipeline"
    /\ fn_result.raised = "none"
    /\ "error" \notin DOMAIN fn_result.value

\* the weights of the table, in tenths
WeightTable ==
    [p \in {<<"H", "i", "g", "h">>, <<"M", "e", "d", "i", "u", "m">>,
            <<"L", "o", "w">>, <<"U", "n", "k", "n", "o", "w", "n">>} |->
        CASE p = <<"H", "i", "g", "h">>           -> 8
          [] p = <<"M", "e", "d", "i", "u", "m">> -> 5
          [] p = <<"L", "o", "w">>                -> 2
          [] OTHER                                -> 1]

\* the probability of row r has a weight in the table
InWeightTable(r) ==
    /\ NotNull(r["closure_probability"])
    /\ Val(r["closure_probability"]) \in DOMAIN WeightTable

\* the sum, in tenths, of value x weight over the filtered rows that have a
\* value, a row outside the table weighing other
WeightedSum(other) ==
    LET rows == _filter_dataframe(fn_args[1], fn_args[2]).rows
    IN SumSkipNull([i \in 1..Len(rows) |->
           IF IsNull(rows[i]["deal_value"]) THEN None
           ELSE Some(Val(rows[i]["deal_value"])
                     * (IF InWeightTable(rows[i])
                        THEN WeightTable[Val(rows[i]["closure_probability"])]
                        ELSE other))])

\* C17 as stated: weighted_pipeline_value is the sum of value x weight over
\* the filtered rows with a value and a probability of the table High 0.8,
\* Medium 0.5, Low 0.2, Unknown 0.1; rows with a null value or a probability
\* without a weight in the table contribute nothing.
C17_OutsideTableContributesNothing ==
    PipelineReturned => fn_result.value.weighted_pipeline_value = WeightedSum(0)

\* C17 amended: weighted_pipeline_value is the sum of value x weight over
\* the filtered rows with a value, the weight being that of the table and
\* 0.1 for every probability outside the table; only rows with a null value
\* contribute nothing.
C17_OutsideTableWeighsATenth ==
    PipelineReturned => fn_result.value.weighted_pipeline_value = WeightedSum(1)

\* C17 witness: a deal of value 100 and probability VeryHigh was analysed
\* alone, and the weighted value is 10
C17_Witness ==
    /\ PipelineReturned
    /\ Len(fn_args[1].rows) = 1
    /\ fn_args[1].rows[1]["closure_probability"]
           = Some(<<"V", "e", "r", "y", "H", "i", "g", "h">>)
    /\ fn_args[1].rows[1]["deal_value"] = Some(100)
    /\ fn_result.value.weighted_pipeline_value = 100

-----------------------------------------------------------------------------
(* Claims about the Business Intelligence Engine's filters *)

\* the text s contains the text sub, letter case aside
ContainsIgnoringCase(s, sub) == Contains(Lower(s), Lower(sub))

\* the row passes the text filter on column col: no filter, or the field
\* contains the filter text
PassesSubstring(r, col, filter) ==
    \/ IsNull(filter)
    \/ col \notin DOMAIN r
    \/ NotNull(r[col]) /\ ContainsIgnoringCase(Val(r[col]), Val(filter))

\* the row passes the probability filter: no filter, or the whole value is
\* the filter value, letter case aside
PassesProbability(r, filter) ==
    \/ IsNull(filter)
    \/ "closure_probability" \notin DOMAIN r
    \/ /\ NotNull(r["closure_probability"])
       /\ Lower(Val(r["closure_probability"])) = Lower(Val(filter))

\* the status column of a row: deal_status of a deal, execution_status of a
\* work order
StatusColumn(r) ==
    IF "deal_status" \in DOMAIN r THEN "deal_status" ELSE "execution_status"

\* _filter_dataframe was called with text filters only
TextFiltered ==
    /\ fn_name = "_filter_dataframe"
    /\ IsNull(fn_args[2].date_range_start)
    /\ IsNull(fn_args[2].date_range_end)

\* C18: under a sector, status or owner filter _filter_dataframe keeps a row
\* if and only if the row's field contains the filter text as a
\* case-insensitive substring, and under a probability filter if and only if
\* the row's closure probability is the filter value as a whole.
C18_SubstringAndExactMatch ==
    TextFiltered =>
        fn_result.value.rows =
            SelectSeq(fn_args[1].rows, LAMBDA r :
                /\ PassesSubstring(r, "sector", fn_args[2].sector)
                /\ PassesSubstring(r, StatusColumn(r), fn_args[2].status)
                /\ PassesSubstring(r, "owner_code", fn_args[2].owner)
                /\ PassesProbability(r, fn_args[2].probability))

\* the day a bound text names, if it names one
DayOfBound(text) ==
    CASE text = <<"2","0","2","5","-","0","3","-","0","1">> -> Some(DaysFromCivil(2025, 3, 1))
      [] text = <<"2","0","2","5","-","0","1","-","3","1">> -> Some(DaysFromCivil(2025, 1, 31))
      [] OTHER -> None

\* the primary date of a row: close_date of a deal, po_date of a work order
PrimaryDate(r) == IF "close_date" \in DOMAIN r THEN r["close_date"] ELSE r["po_date"]

\* the row's primary date is on or after the start, when a start is set and
\* names a day
OnOrAfterStart(r, start) ==
    (NotNull(start) /\ NotNull(DayOfBound(Val(start)))) =>
        (NotNull(PrimaryDate(r)) /\ Val(PrimaryDate(r)) >= Val(DayOfBound(Val(start))))

\* the row's primary date is on or before the end, when an end is set and
\* names a day
OnOrBeforeEnd(r, end) ==
    (NotNull(end) /\ NotNull(DayOfBound(Val(end)))) =>
        (NotNull(PrimaryDate(r)) /\ Val(PrimaryDate(r)) <= Val(DayOfBound(Val(end))))

\* _filter_dataframe was called with date bounds only
DateFiltered ==
    /\ fn_name = "_filter_dataframe"
    /\ IsNull(fn_args[2].sector) /\ IsNull(fn_args[2].status)
    /\ IsNull(fn_args[2].probability) /\ IsNull(fn_args[2].owner)
    /\ NotNull(fn_args[2].date_range_start) \/ NotNull(fn_args[2].date_range_end)

\* C19: with date_range_start and/or date_range_end set, _filter_dataframe
\* keeps exactly the rows whose primary date (close_date of deals, po_date of
\* work orders) lies within the bounds, both inclusive; a bound that is no
\* date is not applied, and the call returns without raising.
C19_DateBoundsInclusive ==
    DateFiltered =>
        /\ fn_result.raised = "none"
        /\ fn_result.value.rows =
               SelectSeq(fn_args[1].rows, LAMBDA r :
                   /\ OnOrAfterStart(r, fn_args[2].date_range_start)
                   /\ OnOrBeforeEnd(r, fn_args[2].date_range_end))

\* C19 witness: deals closing on 2025-03-01 and on 2025-04-15 were filtered
\* from 2025-03-01 to a bound that is no date, and both were kept
C19_Witness ==
    /\ DateFiltered
    /\ fn_args[2].date_range_start = Some(<<"2","0","2","5","-","0","3","-","0","1">>)
    /\ fn_args[2].date_range_end = Some(<<"l", "a", "t", "e", "r">>)
    /\ Len(fn_args[1].rows) = 2
    /\ fn_args[1].rows[1]["close_date"] = Some(DaysFromCivil(2025, 3, 1))
    /\ fn_args[1].rows[2]["close_date"] = Some(DaysFromCivil(2025, 4, 15))
    /\ fn_result.value.rows = fn_args[1].rows

-----------------------------------------------------------------------------
(* Claims about the order of the risk list *)

\* the deal codes of the open deals created more than 90 days before the
\* day of the query, in table order
StalledCodes ==
    LET rows == SelectSeq(bi_deals.rows, LAMBDA r :
                    /\ NotNull(r["deal_status"])
                    /\ Lower(Val(r["deal_status"])) = <<"o", "p", "e", "n">>
                    /\ NotNull(r["created_date"])
                    /\ bi_today - Val(r["created_date"]) > 90)
    IN [i \in 1..Len(rows) |-> rows[i]["deal_code"]]

\* the deal codes of the high value, low probability deals, in table order
HighValueCodes ==
    [i \in 1..Len(HighValueLowProbability) |-> HighValueLowProbability[i]["deal_code"]]

\* the deal codes of the work orders billed and not collected, in table order
UnpaidCodes ==
    LET rows == IF bi_orders.rows = <<>> THEN <<>>
                ELSE SelectSeq(bi_orders.rows, LAMBDA r :
                        /\ NotNull(r["billed_value_excl_gst"])
                        /\ Val(r["billed_value_excl_gst"]) > 0
                        /\ r["collected_amount"] = Some(0))
    IN [i \in 1..Len(rows) |-> rows[i]["deal_code"]]

\* the type and the id of each item of the risk_list returned
RiskTypesAndIds ==
    [i \in 1..Len(bi_result.value.risk_list) |->
        <<bi_result.value.risk_list[i].type, bi_result.value.risk_list[i].id>>]

\* C20: risk_list is all the Stalled Deal items, then all the High Value
\* Risk items, then all the Collection Risk items, each group in the row
\* order of its table; a deal flagged by several heuristics is listed once
\* per heuristic.
C20_RiskListOrder ==
    (bi_op = "risk_assessment" /\ bi_result.raised = "none") =>
        RiskTypesAndIds =
            [i \in 1..Len(StalledCodes) |-> <<"Stalled Deal", StalledCodes[i]>>]
            \o [i \in 1..Len(HighValueCodes) |-> <<"High Value Risk", HighValueCodes[i]>>]
            \o [i \in 1..Len(UnpaidCodes) |-> <<"Collection Risk", UnpaidCodes[i]>>]

\* C20 witness: two deals are stalled, the second of them is also a high
\* value risk and the first has an unpaid work order; the list names D1, D2,
\* D2 again and D1 again
C20_Witness ==
    /\ bi_op = "risk_assessment"
    /\ bi_result.raised = "none"
    /\ RiskTypesAndIds = << <<"Stalled Deal", Some(D1)>>, <<"Stalled Deal", Some(D2)>>,
                            <<"High Value Risk", Some(D2)>>,
                            <<"Collection Risk", Some(D1)>> >>

-----------------------------------------------------------------------------
(* Claims about the risk heuristics *)

\* the deal rows that are open, whatever the letter case of the status, and
\* were created more than 90 whole days before the day of the query
OpenOver90Days ==
    SelectSeq(bi_deals.rows, LAMBDA r :
        /\ r["deal_status"] \in {Some(<<"O", "p", "e", "n">>), Some(<<"o", "p", "e", "n">>),
                                 Some(<<"O", "P", "E", "N">>)}
        /\ NotNull(r["created_date"])
        /\ Val(r["created_date"]) + 90 < bi_today)

\* the items of type "Stalled Deal" of the risk_list returned
StalledRisks ==
    SelectSeq(bi_result.value.risk_list, LAMBDA x : x.type = "Stalled Deal")

\* C21: risk_assessment lists a deal with type "Stalled Deal" and severity
\* "Medium" if and only if the deal is open (status open, letter case aside)
\* and its creation date is more than 90 days before the day of the query.
C21_StalledDealListed ==
    (bi_op = "risk_assessment" /\ bi_result.raised = "none") =>
        /\ Len(StalledRisks) = Len(OpenOver90Days)
        /\ \A i \in 1..Len(StalledRisks) :
              /\ StalledRisks[i].id = OpenOver90Days[i]["deal_code"]
              /\ StalledRisks[i].severity = "Medium"

\* C21 witness: on the 91st day after its creation an open deal is listed as
\* stalled, and a deal that was won is not
C21_Witness ==
    /\ bi_op = "risk_assessment"
    /\ bi_result.raised = "none"
    /\ bi_today = DaysFromCivil(2024, 1, 15) + 91
    /\ Len(bi_deals.rows) = 2
    /\ bi_deals.rows[1]["deal_status"] = Some(<<"O", "p", "e", "n">>)
    /\ bi_deals.rows[2]["deal_status"] = Some(<<"W", "o", "n">>)
    /\ Len(StalledRisks) = 1
    /\ StalledRisks[1].id = bi_deals.rows[1]["deal_code"]

-----------------------------------------------------------------------------
(* Claims about the Quality Tracker *)

\* the missing_data issues recorded for column c
MissingIssues(c) ==
    SelectSeq(fn_result.value,
              LAMBDA i : i.issue_type = "missing_data" /\ i.column = c)

\* the number of rows of the tracked table without a value in column c
MissingIn(c) ==
    Cardinality({i \in 1..Len(fn_args[1].rows) : fn_args[1].rows[i][c] = None})

\* the severity the claim gives m missing values of n
GradeOf(m, n) ==
    IF 100 * m > 25 * n THEN "High" ELSE IF 100 * m > 10 * n THEN "Medium" ELSE "Low"

\* C22: for each column of a normalized table with n rows of which m are
\* missing, a missing_data issue is recorded if and only if m/n exceeds 5%,
\* with severity High above 25%, Medium above 10% up to 25%, Low otherwise;
\* exactly 5% records nothing, exactly 25% is Medium, exactly 10% is Low.
C22_MissingDataThresholds ==
    fn_name = "_track_quality_issues" =>
        LET n == Len(fn_args[1].rows)
        IN \A c \in Range(fn_args[1].columns) :
              LET m == MissingIn(c)
              IN /\ Len(MissingIssues(c)) = IF 100 * m > 5 * n THEN 1 ELSE 0
                 /\ 100 * m > 5 * n =>
                       /\ MissingIssues(c)[1].severity = GradeOf(m, n)
                       /\ MissingIssues(c)[1].missing_count = m
                 /\ 20 * m = n => MissingIssues(c) = <<>>
                 /\ 4 * m = n => MissingIssues(c)[1].severity = "Medium"
                 /\ (10 * m = n /\ m > 0) => MissingIssues(c)[1].severity = "Low"

\* C22 witness: of 20 deals 5 have no sector and one has no close date; the
\* sector is recorded with severity Medium and the close date is not recorded
C22_Witness ==
    /\ fn_name = "_track_quality_issues"
    /\ Len(fn_args[1].rows) = 20
    /\ MissingIn("sector") = 5
    /\ MissingIn("close_date") = 1
    /\ Len(MissingIssues("sector")) = 1
    /\ MissingIssues("sector")[1].severity = "Medium"
    /\ MissingIssues("close_date") = <<>>

\* the deal codes of the table checked, row by row, rows without one left out
CodesChecked ==
    LET cells == SelectSeq(Column(fn_args[1], "deal_code"), NotNull)
    IN [i \in 1..Len(cells) |-> Val(cells[i])]

\* the deal codes that occur in more than one row, each once, in the order
\* of their first rows
RepeatedCodes ==
    Unique(SelectSeq(CodesChecked, LAMBDA c : CountOf(CodesChecked, c) > 1))

\* the number of rows that carry a repeated deal code
RowsWithRepeatedCode ==
    Len(SelectSeq(CodesChecked, LAMBDA c : CountOf(CodesChecked, c) > 1))

\* C23: a normalize call records at most one duplicates issue, and records
\* it if and only if some deal code occurs in more than one row of the
\* table; the issue lists the first 5 distinct offending codes and is High
\* when more than 10 rows carry a repeated code, Medium otherwise.
C23_DuplicatesIssue ==
    fn_name = "_check_duplicates" =>
        LET issues == fn_result.value
            first5 == SubSeq(RepeatedCodes, 1,
                             IF Len(RepeatedCodes) < 5 THEN Len(RepeatedCodes) ELSE 5)
        IN /\ Len(issues) = IF RepeatedCodes # <<>> THEN 1 ELSE 0
           /\ \A i \in 1..Len(issues) :
                 /\ issues[i].issue_type = "duplicates"
                 /\ issues[i].affected_values = [k \in 1..Len(first5) |-> Some(first5[k])]
                 /\ issues[i].severity =
                        IF RowsWithRepeatedCode > 10 THEN "High" ELSE "Medium"

\* C23 restricted to tables where at most one row lacks a deal code
C23_DuplicatesIssueOfNamedRows ==
    (fn_name = "_check_duplicates"
        /\ Len(fn_args[1].rows) - Len(CodesChecked) <= 1) => C23_DuplicatesIssue

-----------------------------------------------------------------------------
(* Claims about the join and the report *)

\* some deal code is carried by more than one work-order row
SomeCodeHasSeveralOrders ==
    \E i, j \in 1..Len(orders_df.rows) :
        /\ i < j
        /\ NotNull(orders_df.rows[i]["deal_code"])
        /\ orders_df.rows[i]["deal_code"] = orders_df.rows[j]["deal_code"]

\* the one_to_many issues of the issue list
OneToManyIssues ==
    SelectSeq(data_quality_issues, LAMBDA i : i.issue_type = "one_to_many")

\* the combined rows a left join with the work-order table as it is has: per
\* deal row one for each work-order row with its key, the missing key
\* matching the missing key, and one if there is none
RowsOfPlainJoin ==
    SumSeq([i \in 1..Len(deals_df.rows) |->
               IF OrdersOf(deals_df.rows[i]["deal_code"]) = <<>> THEN 1
               ELSE Len(OrdersOf(deals_df.rows[i]["deal_code"]))])

\* C24: join_deals_and_orders records exactly one one_to_many issue of
\* severity Medium and pre-aggregates the work-order table if and only if
\* some deal code maps to more than one work-order row; otherwise it records
\* no issue and joins the work-order table as it is.
C24_OneToManyIssueAndAggregation ==
    Joined =>
        /\ SomeCodeHasSeveralOrders =>
              /\ Len(OneToManyIssues) = 1
              /\ OneToManyIssues[1].severity = "Medium"
              /\ OneToManyIssues[1].dataset = "Join"
              \* aggregated: one work-order row per code, none without a code
              /\ Len(Val(combined_df).rows) = Len(deals_df.rows)
              /\ \A i \in 1..Len(deals_df.rows) :
                    IsNull(deals_df.rows[i]["deal_code"]) =>
                        IsNull(Val(combined_df).rows[i]["item_id_order"])
        /\ ~SomeCodeHasSeveralOrders =>
              /\ OneToManyIssues = <<>>
              /\ Len(Val(combined_df).rows) = RowsOfPlainJoin
              /\ \A i \in 1..Len(Val(combined_df).rows) :
                    LET row == Val(combined_df).rows[i]
                    IN NotNull(row["item_id_order"]) =>
                          \E o \in Range(orders_df.rows) :
                              /\ o["item_id"] = row["item_id_order"]
                              /\ o["deal_code"] = row["deal_code"]
                              /\ \A c \in Range(numeric_cols) : o[c] = row[c]

\* C24 witness: two work orders of one deal code were joined to two deals,
\* one issue was recorded and the combined table has two rows
C24_Witness ==
    /\ Joined
    /\ SomeCodeHasSeveralOrders
    /\ Len(deals_df.rows) = 2
    /\ Len(OneToManyIssues) = 1
    /\ Len(Val(combined_df).rows) = 2

\* the issue list a report was asked for, and the report
ReportedIssues == fn_args[1]
Report == fn_result.value

\* the lines of the report that describe an issue
IssueLines ==
    SelectSeq(Report, LAMBDA l : l.line \notin {"excellent", "header", "priority"})

SeverityRank(sev) ==
    CASE sev = "High" -> 1 [] sev = "Medium" -> 2 [] sev = "Low" -> 3

\* where the k-th recorded issue stands among the issue lines: after the
\* issues of a higher severity and the earlier ones of its own
PlaceOf(k) ==
    LET rank(j) == SeverityRank(ReportedIssues[j].severity)
    IN Cardinality({j \in 1..Len(ReportedIssues) :
                       \/ rank(j) < rank(k)
                       \/ rank(j) = rank(k) /\ j <= k})

\* the line l describes the issue i
Describes(l, i) ==
    /\ l.line = i.issue_type
    /\ l.dataset = i.dataset
    /\ i.issue_type = "missing_data" =>
          /\ l.column = i.column
          /\ l.missing_count = i.missing_count
          /\ l.missing_percentage = i.missing_percentage
    /\ i.issue_type = "duplicates" =>
          l.column = i.column /\ l.count = i.count

\* the heading that stands last before the p-th line of the report
HeadingBefore(p) ==
    LET at == CHOOSE h \in 1..p :
                  /\ Report[h].line = "priority"
                  /\ \A q \in (h + 1)..p : Report[q].line # "priority"
    IN Report[at].severity

\* C25: get_quality_report returns the "no issues" sentinel exactly when the
\* issue list is empty; otherwise the report holds every recorded issue
\* once, under the heading of its severity, the severities in the order
\* High, Medium, Low and the issues of one severity in recording order.
C25_ReportGroupsBySeverity ==
    fn_name = "get_quality_report" =>
        /\ (Report = <<[line |-> "excellent"]>>) <=> (ReportedIssues = <<>>)
        /\ ReportedIssues # <<>> =>
              /\ Report[1] = [line |-> "header"]
              /\ \A p \in 2..Len(Report) : Report[p].line # "excellent"
              /\ Len(IssueLines) = Len(ReportedIssues)
              /\ \A k \in 1..Len(ReportedIssues) :
                    Describes(IssueLines[PlaceOf(k)], ReportedIssues[k])
              /\ \A p \in 1..Len(Report) :
                    Report[p].line \notin {"header", "priority"} =>
                        \E k \in 1..Len(ReportedIssues) :
                            /\ Describes(Report[p], ReportedIssues[k])
                            /\ HeadingBefore(p) = ReportedIssues[k].severity
              /\ \A p, q \in 1..Len(Report) :
                    /\ p < q
                    /\ Report[p].line = "priority"
                    /\ Report[q].line = "priority"
                    => SeverityRank(Report[p].severity)
                           < SeverityRank(Report[q].severity)

\* C25 witness: a Low, a Medium and a High issue recorded in this order are
\* reported as High, Medium, Low
C25_Witness ==
    /\ fn_name = "get_quality_report"
    /\ Len(ReportedIssues) = 3
    /\ ReportedIssues[1].severity = "Low"
    /\ ReportedIssues[2].severity = "Medium"
    /\ ReportedIssues[3].severity = "High"
    /\ Len(Report) = 7
    /\ IssueLines[1].missing_count = 6

-----------------------------------------------------------------------------
(* Claims about the board client *)

\* C26: fetch_board_items(board_id) returns every item of the board, for a
\* board of any size, below or above the limit of one page.
C26_FetchReturnsEveryItem ==
    /\ fn_name = "fetch_board_items"
    /\ fn_args[1] = "board"
    => /\ fn_result.raised = "none"
       /\ fn_result.value = fn_args[2]

\* the boards up to one page are returned whole
C26_FetchReturnsFirstPage ==
    /\ fn_name = "fetch_board_items"
    /\ fn_args[1] = "board"
    => /\ fn_result.raised = "none"
       /\ fn_result.value = items_page(fn_args[2], fn_args[3]).items
       /\ Len(fn_args[2]) <= fn_args[3] => fn_result.value = fn_args[2]

-----------------------------------------------------------------------------
(* Claims about the arguments of the BI Engine *)

\* C27: analyze_pipeline, revenue_analysis, risk_assessment and
\* sector_performance leave their arguments as they were passed: after a
\* call the tables and the filter set hold the rows, columns and values the
\* caller passed.
C27_ArgumentsUnchanged ==
    /\ bi_op = "analyze_pipeline" => bi_passed = <<bi_deals, bi_filters>>
    /\ bi_op = "revenue_analysis" => bi_passed = <<bi_orders, bi_filters>>
    /\ bi_op = "risk_assessment" => bi_passed = <<bi_deals, bi_orders>>
    /\ bi_op = "sector_performance" => bi_passed = <<bi_combined>>

\* C27 witness: risk_assessment listed a stalled deal, for which it computed
\* days_open, and the deals table passed to it has no such column
C27_Witness ==
    /\ bi_op = "risk_assessment"
    /\ bi_result.raised = "none"
    /\ \E k \in 1..Len(bi_result.value.risk_list) :
          bi_result.value.risk_list[k].type = "Stalled Deal"
    /\ ~HasColumn(bi_deals, "days_open")
    /\ bi_passed[1] = bi_deals

-----------------------------------------------------------------------------
(* Claims about the growth of the issue list *)

\* the issue list before the step is the beginning of the list after it
IssuesKept ==
    /\ Len(data_quality_issues) <= Len(data_quality_issues')
    /\ SubSeq(data_quality_issues', 1, Len(data_quality_issues))
           = data_quality_issues

\* the step is a call of clear_quality_issues
ClearStep ==
    /\ calls' = <<>>
    /\ quality_report' = None
    /\ data_quality_issues' = <<>>

\* the step is a call of get_quality_report
ReportStep == quality_report' # None

\* C28: between two calls of clear_quality_issues the issue list only grows:
\* normalize_deals, normalize_work_orders and join_deals_and_orders append
\* to it and leave the earlier issues as they are, in their order, and
\* get_quality_report leaves the list unchanged.
C28_IssueListOnlyGrows ==
    [][/\ ReportStep => data_quality_issues' = data_quality_issues
       /\ ~ClearStep => IssuesKept
       /\ Len(calls') > Len(calls) =>
             data_quality_issues' = data_quality_issues \o calls'[Len(calls')].issues]_vars

\* C28 witness: a normalize call left issues, a join added its own behind
\* them, and the report was read: the list holds them all
C28_Witness ==
    /\ Len(calls) = 2
    /\ IsNormalize(calls[1])
    /\ calls[1].issues # <<>>
    /\ calls[2].op = "join_deals_and_orders"
    /\ calls[2].issues # <<>>
    /\ quality_report # None
    /\ data_quality_issues = calls[1].issues \o calls[2].issues

-----------------------------------------------------------------------------
(* Claims about rows without a value *)

\* the column col of the row holds a value, when the table has the column
HoldsValue(r, col) == col \in DOMAIN r => NotNull(r[col])

\* the date bound is set and names a day
BoundApplied(bound) == NotNull(bound) /\ NotNull(DayOfBound(Val(bound)))

\* C29: a row whose sector, status, owner, closure probability or primary
\* date is null never passes an active filter on that field, and with no
\* filter set every row is kept.
C29_NullNeverPassesFilter ==
    fn_name = "_filter_dataframe" =>
        /\ \A r \in Range(fn_result.value.rows) :
              /\ NotNull(fn_args[2].sector) => HoldsValue(r, "sector")
              /\ NotNull(fn_args[2].status) => HoldsValue(r, StatusColumn(r))
              /\ NotNull(fn_args[2].owner) => HoldsValue(r, "owner_code")
              /\ NotNull(fn_args[2].probability) =>
                    HoldsValue(r, "closure_probability")
              /\ BoundApplied(fn_args[2].date_range_start) => NotNull(PrimaryDate(r))
              /\ BoundApplied(fn_args[2].date_range_end) => NotNull(PrimaryDate(r))
        /\ fn_args[2] = NoFilters => fn_result.value = fn_args[1]

\* C29 witness: a deal of the Mining sector and a deal without sector, status
\* and owner were filtered by sector, and the first alone was kept
C29_Witness ==
    /\ fn_name = "_filter_dataframe"
    /\ NotNull(fn_args[2].sector)
    /\ Len(fn_args[1].rows) = 2
    /\ NotNull(fn_args[1].rows[1]["sector"])
    /\ IsNull(fn_args[1].rows[2]["sector"])
    /\ IsNull(fn_args[1].rows[2]["deal_status"])
    /\ IsNull(fn_args[1].rows[2]["owner_code"])
    /\ fn_result.value.rows = <<fn_args[1].rows[1]>>

\* the items of type "Collection Risk" of the risk_list returned
CollectionRisks ==
    SelectSeq(bi_result.value.risk_list, LAMBDA x : x.type = "Collection Risk")

\* how many of the items are listed for the code, how many of the rows that
\* carry the code satisfy a test
ListedFor(items, code) == Len(SelectSeq(items, LAMBDA x : x.id = code))

RowsFor(rows, code, Test(_)) ==
    Len(SelectSeq(rows, LAMBDA r : r["deal_code"] = code /\ Test(r)))

\* C30: null values never trigger a risk in risk_assessment. Under each deal
\* code no more Stalled Deal items are listed than deals of that code have
\* both a status and a creation date, no more High Value Risk items than
\* deals of that code have a value (and none at all when no deal has a
\* value), and no more Collection Risk items than work orders of that code
\* have both a billed and a collected amount.
C30_NullsTriggerNoRisk ==
    (bi_op = "risk_assessment" /\ bi_result.raised = "none") =>
        /\ \A x \in Range(StalledRisks) :
              ListedFor(StalledRisks, x.id)
                 <= RowsFor(bi_deals.rows, x.id, LAMBDA r :
                        NotNull(r["deal_status"]) /\ NotNull(r["created_date"]))
        /\ \A x \in Range(HighValueRisks) :
              ListedFor(HighValueRisks, x.id)
                 <= RowsFor(bi_deals.rows, x.id, LAMBDA r : NotNull(r["deal_value"]))
        /\ (\A r \in Range(bi_deals.rows) : IsNull(r["deal_value"]))
              => HighValueRisks = <<>>
        /\ \A x \in Range(CollectionRisks) :
              ListedFor(CollectionRisks, x.id)
                 <= RowsFor(bi_orders.rows, x.id, LAMBDA r :
                        /\ NotNull(r["billed_value_excl_gst"])
                        /\ NotNull(r["collected_amount"]))

\* C30 witness: 138 days after their creation the open deal D1, a deal
\* without a status and an open deal without a creation date were assessed
\* beside a work order billed and without a collected amount: D1 alone is
\* listed as stalled and no work order as a collection risk
C30_Witness ==
    /\ bi_op = "risk_assessment"
    /\ bi_result.raised = "none"
    /\ bi_today = DaysFromCivil(2024, 6, 1)
    /\ Len(bi_deals.rows) = 3
    /\ IsNull(bi_deals.rows[2]["deal_status"])
    /\ NotNull(bi_deals.rows[2]["created_date"])
    /\ bi_deals.rows[3]["deal_status"] = Some(<<"O", "p", "e", "n">>)
    /\ IsNull(bi_deals.rows[3]["created_date"])
    /\ Len(StalledRisks) = 1
    /\ StalledRisks[1].id = Some(D1)
    /\ \E r \in Range(bi_orders.rows) :
          /\ NotNull(r["billed_value_excl_gst"])
          /\ Val(r["billed_value_excl_gst"]) > 0
          /\ IsNull(r["collected_amount"])
    /\ CollectionRisks = <<>>

====
